---- MODULE Spec2Model ----
(***************************************************************************)
(* The OpenCore config.plist text-patching engine of SurfaceMac.           *)
(*                                                                         *)
(* The inject-config handler holds the property list as one JavaScript     *)
(* string and rewrites it with regular expressions.  Documents are TLA+    *)
(* strings here; every regular expression of the handler is an operator    *)
(* that computes the match the JavaScript engine finds (leftmost start,    *)
(* greedy \s*, lazy .*? and {0,500}?), and String.prototype.replace is     *)
(* modelled with its replacement patterns ($1, $&, ...).                   *)
(*                                                                         *)
(* Two generations of the handler are in the repository:                   *)
(*   - src/electron/main.js (same rules in src/unnamed/part_001)           *)
(*   - src/unnamed/part_002 (patchContent, Drivers block, HideAuxiliary)   *)
(***************************************************************************)
EXTENDS Integers, Sequences, FiniteSets, TLC

VARIABLES
    pc,        \* how far the operation or the handler has run
    template,  \* the document the operation started from
    params,    \* the arguments of the operation / of inject-config
    prev,      \* the document before the last run of a step
    content,   \* the document held in memory (patched / content / raw)
    destConfig, \* the text of config.plist on the EFI partition
    console,   \* the warnings and errors written with console.warn / .error
    thrown     \* the message of the error the handler rejected with ("": none)

\* the file system and the outcome, which only the handler as a whole touches
io == <<destConfig, console, thrown>>

vars == <<pc, template, params, prev, content, destConfig, console, thrown>>

(***************************************************************************)
(* JavaScript strings                                                      *)
(***************************************************************************)

\* the character of s at 1-based position i
CharAt(s, i) == SubSeq(s, i, i)

\* s.startsWith(lit, i-1)
StartsWithAt(s, i, lit) ==
    /\ i >= 1
    /\ i + Len(lit) - 1 <= Len(s)
    /\ SubSeq(s, i, i + Len(lit) - 1) = lit

\* the least of a set of positions, 0 for the empty set
First(ps) == IF ps = {} THEN 0 ELSE CHOOSE i \in ps : \A j \in ps : i <= j

\* 1-based s.indexOf(lit, from-1); 0 when lit does not occur
IndexOf(s, lit, from) ==
    First({i \in from..(Len(s) - Len(lit) + 1) : StartsWithAt(s, i, lit)})

\* s.includes(lit)
Includes(s, lit) == IndexOf(s, lit, 1) # 0

\* s.startsWith(lit)
StartsWith(s, lit) == StartsWithAt(s, 1, lit)

\* the characters the regular expression class \s (and trim) accepts
IsSpace(c) == c \in {" ", "\t", "\n", "\r", "\f"}

\* the characters the regular expression . refuses without the s flag
IsLineTerminator(c) == c \in {"\n", "\r"}

\* no line terminator in s[from..to]
NoLineTerminator(s, from, to) ==
    \A i \in from..to : ~IsLineTerminator(CharAt(s, i))

\* greedy \s* starting at i: the position of the first non-space character
RECURSIVE SkipSpace(_, _)
SkipSpace(s, i) ==
    IF i <= Len(s) /\ IsSpace(CharAt(s, i)) THEN SkipSpace(s, i + 1) ELSE i

\* s.trim()
RECURSIVE TrimEnd(_)
TrimEnd(s) ==
    IF s # "" /\ IsSpace(CharAt(s, Len(s)))
    THEN TrimEnd(SubSeq(s, 1, Len(s) - 1)) ELSE s

Trim(s) == TrimEnd(SubSeq(s, SkipSpace(s, 1), Len(s)))

\* s.replace(/\s+/g, ' ')
RECURSIVE CollapseSpace(_)
CollapseSpace(s) ==
    IF s = "" THEN ""
    ELSE IF IsSpace(Head(s))
         THEN " " \o CollapseSpace(SubSeq(s, SkipSpace(s, 1), Len(s)))
         ELSE Head(s) \o CollapseSpace(Tail(s))

\* s.replace(lit, '') with a string pattern: the first occurrence only
RemoveFirst(s, lit) ==
    LET i == IndexOf(s, lit, 1)
    IN  IF i = 0 THEN s
        ELSE SubSeq(s, 1, i - 1) \o SubSeq(s, i + Len(lit), Len(s))

(***************************************************************************)
(* Regular expressions of the handler.  A match is a record                *)
(* [found, start, end, caps]: the 1-based span of the whole match and the  *)
(* captured groups.                                                        *)
(***************************************************************************)

NoMatch == [found |-> FALSE, start |-> 0, end |-> 0, caps |-> <<>>]

KeyLit(key) == "<key>" \o key \o "</key>"

\* the same expression with a greedy (.*): the value runs to the last close
\* tag the . can reach
ValueMatchAt_greedy(s, i, key, tag, dotAll) ==
    LET open  == "<" \o tag \o ">"
        close == "</" \o tag \o ">"
        j     == SkipSpace(s, i + Len(KeyLit(key)))
        c     == j + Len(open)
        ends  == {e \in c..Len(s) : /\ StartsWithAt(s, e, close)
                                    /\ (dotAll \/ NoLineTerminator(s, c, e - 1))}
        e     == CHOOSE x \in ends : \A y \in ends : y <= x
    IN  IF /\ StartsWithAt(s, i, KeyLit(key))
           /\ StartsWithAt(s, j, open)
           /\ ends # {}
        THEN [found |-> TRUE, start |-> i, end |-> e + Len(close) - 1,
              caps  |-> << SubSeq(s, i, c - 1), SubSeq(s, c, e - 1), close >>]
        ELSE NoMatch

\* (.*?)(<\/TAG>) with the value starting at c and the first close tag at e
\* (0: none); without the s flag the value cannot hold a line terminator
ValueUpTo(s, i, c, e, tag, dotAll) ==
    IF e # 0 /\ (dotAll \/ NoLineTerminator(s, c, e - 1))
    THEN [found |-> TRUE, start |-> i, end |-> e + Len(tag) + 2,
          caps  |-> << SubSeq(s, i, c - 1), SubSeq(s, c, e - 1),
                       "</" \o tag \o ">" >>]
    ELSE NoMatch

\* <TAG>(.*?)(<\/TAG>) after the key and its \s*, the open tag expected at j
ValueAfterKey(s, i, j, tag, dotAll) ==
    IF StartsWithAt(s, j, "<" \o tag \o ">")
    THEN ValueUpTo(s, i, j + Len(tag) + 2,
                   IndexOf(s, "</" \o tag \o ">", j + Len(tag) + 2), tag, dotAll)
    ELSE NoMatch

\* /(<key>KEY<\/key>\s*<TAG>)(.*?)(<\/TAG>)/ tried at start position i;
\* dotAll is the s flag ( . also matches line terminators)
ValueMatchAt(s, i, key, tag, dotAll) ==
    IF StartsWithAt(s, i, KeyLit(key))
    THEN ValueAfterKey(s, i, SkipSpace(s, i + Len(KeyLit(key))), tag, dotAll)
    ELSE NoMatch

\* <(true|false)\/> after the key and its \s*, expected at j
BoolAfterKey(s, i, j) ==
    IF StartsWithAt(s, j, "<true/>")
    THEN [found |-> TRUE, start |-> i, end |-> j + 6,
          caps  |-> << SubSeq(s, i, j - 1), "true" >>]
    ELSE IF StartsWithAt(s, j, "<false/>")
    THEN [found |-> TRUE, start |-> i, end |-> j + 7,
          caps  |-> << SubSeq(s, i, j - 1), "false" >>]
    ELSE NoMatch

\* /(<key>KEY<\/key>\s*)<(true|false)\/>/ tried at start position i
BoolMatchAt(s, i, key) ==
    IF StartsWithAt(s, i, KeyLit(key))
    THEN BoolAfterKey(s, i, SkipSpace(s, i + Len(KeyLit(key))))
    ELSE NoMatch

\* <true\/> after the key and its \s*, expected at j
TrueAfterKey(s, i, j) ==
    IF StartsWithAt(s, j, "<true/>")
    THEN [found |-> TRUE, start |-> i, end |-> j + 6,
          caps  |-> << SubSeq(s, i, j - 1) >>]
    ELSE NoMatch

\* /(<key>KEY<\/key>\s*)<true\/>/ tried at start position i
TrueMatchAt(s, i, key) ==
    IF StartsWithAt(s, i, KeyLit(key))
    THEN TrueAfterKey(s, i, SkipSpace(s, i + Len(KeyLit(key))))
    ELSE NoMatch

\* a pattern built from a kext name: every character stands for itself, but
\* the unescaped "." of "X.kext" matches any character but a line terminator
PatternAt(s, i, pat) ==
    /\ i >= 1
    /\ i + Len(pat) - 1 <= Len(s)
    /\ \A k \in 1..Len(pat) :
          IF CharAt(pat, k) = "."
          THEN ~IsLineTerminator(CharAt(s, i + k - 1))
          ELSE CharAt(s, i + k - 1) = CharAt(pat, k)

\* the scan window of toggleKext: [\s\S]{0,500}?
Window == 500

NoTag == [tag |-> 0, end |-> 0]

\* <.*?\/> with its "<" at q and the first "/>" after it at r (0: none)
TagClosed(s, q, r) ==
    IF r # 0 /\ NoLineTerminator(s, q + 1, r - 1)
    THEN [tag |-> q, end |-> r + 1] ELSE NoTag

\* <.*?\/> expected at q
TagAt(s, q) ==
    IF StartsWithAt(s, q, "<") THEN TagClosed(s, q, IndexOf(s, "/>", q + 1))
    ELSE NoTag

\* <key>Enabled<\/key>\s*<.*?\/> tried at p: the position of the "<" of the
\* tag and of the last character of the match (0: no match)
EnabledTagAt(s, p) ==
    IF StartsWithAt(s, p, KeyLit("Enabled"))
    THEN TagAt(s, SkipSpace(s, p + Len(KeyLit("Enabled"))))
    ELSE NoTag

\* the match that starts at i and ends with the tag t
MatchUpToTag(s, i, t) ==
    [found |-> TRUE, start |-> i, end |-> t.end,
     caps  |-> << SubSeq(s, i, t.tag - 1) >>]

\* the lazy window takes the nearest of the positions ps at which an Enabled
\* key and its tag match
NearestEnabled(s, i, ps) ==
    IF ps = {} THEN NoMatch
    ELSE MatchUpToTag(s, i, EnabledTagAt(s, First(ps)))

\* /(<string>NAME<\/string>[\s\S]{0,500}?<key>Enabled<\/key>\s*)<.*?\/>/
\* tried at start position i
KextMatchAt(s, i, name) ==
    IF /\ StartsWithAt(s, i, "<string>")
       /\ PatternAt(s, i + Len("<string>"), name)
       /\ StartsWithAt(s, i + Len("<string>") + Len(name), "</string>")
    THEN NearestEnabled(s, i,
             {p \in (i + Len("<string>") + Len(name) + Len("</string>"))
                    .. (i + Len("<string>") + Len(name) + Len("</string>") + Window) :
                  EnabledTagAt(s, p).end # 0})
    ELSE NoMatch

\* <array>[\s\S]*?<\/array> after the key and its \s*: the array expected at
\* j, the first close tag after it at e (0: none)
ArrayAfterKey(s, i, j, e) ==
    IF StartsWithAt(s, j, "<array>") /\ e # 0
    THEN [found |-> TRUE, start |-> i, end |-> e + Len("</array>") - 1,
          caps  |-> <<>>]
    ELSE NoMatch

\* the array after the key at i, the \s* ending at j
DriversArrayAt(s, i, j) ==
    ArrayAfterKey(s, i, j, IndexOf(s, "</array>", j + Len("<array>")))

\* /<key>Drivers<\/key>\s*<array>[\s\S]*?<\/array>/ tried at start position i
DriversMatchAt(s, i) ==
    IF StartsWithAt(s, i, KeyLit("Drivers"))
    THEN DriversArrayAt(s, i, SkipSpace(s, i + Len(KeyLit("Drivers"))))
    ELSE NoMatch

\* the regular expressions the handler builds, as values
RxValue(key, tag, dotAll) == [kind |-> "value", key |-> key, tag |-> tag, dotAll |-> dotAll]
RxBool(key)               == [kind |-> "bool", key |-> key]
RxTrue(key)               == [kind |-> "true", key |-> key]
RxKext(name)              == [kind |-> "kext", key |-> name]
RxDrivers                 == [kind |-> "drivers", key |-> "Drivers"]

\* the literal every match of rx starts with
RxPrefix(rx) == IF rx.kind = "kext" THEN "<string>" ELSE KeyLit(rx.key)

MatchAt(rx, s, i) ==
    CASE rx.kind = "value"   -> ValueMatchAt(s, i, rx.key, rx.tag, rx.dotAll)
      [] rx.kind = "bool"    -> BoolMatchAt(s, i, rx.key)
      [] rx.kind = "true"    -> TrueMatchAt(s, i, rx.key)
      [] rx.kind = "kext"    -> KextMatchAt(s, i, rx.key)
      [] rx.kind = "drivers" -> DriversMatchAt(s, i)

\* the match with the leftmost start among ms, NoMatch when there is none
Leftmost(ms) ==
    IF \A m \in ms : ~m.found THEN NoMatch
    ELSE CHOOSE m \in ms : m.found /\ \A n \in ms : n.found => m.start <= n.start

\* RegExp.prototype.exec from position `from`: the leftmost start that matches
Exec(rx, s, from) ==
    Leftmost({MatchAt(rx, s, i) :
                 i \in {k \in from..Len(s) : StartsWithAt(s, k, RxPrefix(rx))}})

\* regex.test(s), s.match(regex) on a fresh regular expression
Test(rx, s) == Exec(rx, s, 1).found

(***************************************************************************)
(* String.prototype.replace with a replacement string                      *)
(***************************************************************************)

Digits == <<"0", "1", "2", "3", "4", "5", "6", "7", "8", "9">>

IsDigit(c) == \E d \in 1..10 : Digits[d] = c

DigitVal(c) == (CHOOSE d \in 1..10 : Digits[d] = c) - 1

RECURSIVE GetSubstitution(_, _, _)

\* the replacement string tpl whose first $ is at d (0: none), expanded
ExpandAt(tpl, str, m, d) ==
    IF d = 0 \/ d = Len(tpl) THEN tpl
    ELSE
      LET c     == CharAt(tpl, d + 1)
          rest1 == SubSeq(tpl, d + 1, Len(tpl))
          rest2 == SubSeq(tpl, d + 2, Len(tpl))
          rest3 == SubSeq(tpl, d + 3, Len(tpl))
          n     == Len(m.caps)
          d1    == DigitVal(c)
          two   == Len(tpl) >= d + 2 /\ IsDigit(CharAt(tpl, d + 2))
          d2    == 10 * d1 + DigitVal(CharAt(tpl, d + 2))
      IN  SubSeq(tpl, 1, d - 1) \o
          CASE c = "$"  -> "$" \o GetSubstitution(rest2, str, m)
            [] c = "&"  -> SubSeq(str, m.start, m.end) \o GetSubstitution(rest2, str, m)
            [] c = "`"  -> SubSeq(str, 1, m.start - 1) \o GetSubstitution(rest2, str, m)
            [] c = "'"  -> SubSeq(str, m.end + 1, Len(str)) \o GetSubstitution(rest2, str, m)
            [] IsDigit(c) /\ two /\ d2 >= 1 /\ d2 <= n
                        -> m.caps[d2] \o GetSubstitution(rest3, str, m)
            [] IsDigit(c) /\ ~(two /\ d2 >= 1 /\ d2 <= n) /\ d1 >= 1 /\ d1 <= n
                        -> m.caps[d1] \o GetSubstitution(rest2, str, m)
            [] OTHER    -> "$" \o GetSubstitution(rest1, str, m)

\* GetSubstitution: the replacement string tpl with its $ patterns expanded
\* for the match m of the string str, one $ at a time
GetSubstitution(tpl, str, m) == ExpandAt(tpl, str, m, IndexOf(tpl, "$", 1))

\* str with the match m replaced by the expansion of tpl
Splice(str, tpl, m) ==
    IF ~m.found THEN str
    ELSE SubSeq(str, 1, m.start - 1) \o GetSubstitution(tpl, str, m)
             \o SubSeq(str, m.end + 1, Len(str))

\* str.replace(rx, tpl) for a regular expression without the g flag
ReplaceFirst(str, rx, tpl) == Splice(str, tpl, Exec(rx, str, 1))

RECURSIVE ReplaceFrom(_, _, _, _)

\* the text of str from position `from` on, m being the next match at or
\* after it: the match replaced, and the rest treated the same way
SpliceFrom(str, rx, tpl, from, m) ==
    IF ~m.found THEN SubSeq(str, from, Len(str))
    ELSE SubSeq(str, from, m.start - 1) \o GetSubstitution(tpl, str, m)
             \o ReplaceFrom(str, rx, tpl, m.end + 1)

\* str.replace(rx, tpl) for a regular expression with the g flag: the text
\* from position `from` on with every match replaced
ReplaceFrom(str, rx, tpl, from) ==
    SpliceFrom(str, rx, tpl, from, Exec(rx, str, from))

ReplaceAll(str, rx, tpl) == ReplaceFrom(str, rx, tpl, 1)

(***************************************************************************)
(* The rewrite helpers of the handler (the same text in main.js, part_001  *)
(* and part_002)                                                           *)
(***************************************************************************)

BoolTag(b) == IF b THEN "<true/>" ELSE "<false/>"

\* replaceStringValue(key, value): patched.replace(regex, `$1${value}$3`)
replaceStringValue(doc, key, value) ==
    ReplaceAll(doc, RxValue(key, "string", FALSE), "$1" \o value \o "$3")

\* setInteger(key, val); val is the decimal text of the number
setInteger(doc, key, val) ==
    ReplaceAll(doc, RxValue(key, "integer", FALSE), "$1" \o val \o "$3")

\* toggleBool(key, enabled), ensureQuirk(quirkName, enabled)
toggleBool_flips(doc, key, enabled) ==
    LET m == Exec(RxBool(key), doc, 1)
    IN  IF m.found
        THEN ReplaceFirst(doc, RxBool(key), "$1" \o BoolTag(m.caps[2] = "false"))
        ELSE doc

toggleBool(doc, key, enabled) ==
    IF Test(RxBool(key), doc)
    THEN ReplaceAll(doc, RxBool(key), "$1" \o BoolTag(enabled))
    ELSE doc

\* a toggle that is not anchored on the marker: every Enabled boolean
toggleKext_everyEnabled(doc, kextName, shouldEnable) ==
    ReplaceAll(doc, RxBool("Enabled"), "$1" \o BoolTag(shouldEnable))

\* toggleKext(kextName, shouldEnable)
toggleKext(doc, kextName, shouldEnable) ==
    IF Test(RxKext(kextName), doc)
    THEN ReplaceAll(doc, RxKext(kextName), "$1" \o BoolTag(shouldEnable))
    ELSE doc

(***************************************************************************)
(* patchContent of part_002, rule by rule                                  *)
(***************************************************************************)

\* the caller's smbios object; "" is a missing (falsy) field, and
\* present = FALSE is a missing object
NoSmbios == [present |-> FALSE, serial |-> "", mlb |-> "", uuid |-> ""]

Smbios(serial, mlb, uuid) ==
    [present |-> TRUE, serial |-> serial, mlb |-> mlb, uuid |-> uuid]

\* if (smbios.field) replaceStringValue(key, smbios.field)
InjectField(doc, key, value) ==
    IF value # "" THEN replaceStringValue(doc, key, value) ELSE doc

\* SMBIOS Injection
RuleSmbios(doc, smbios) ==
    IF ~smbios.present THEN doc
    ELSE InjectField(
           InjectField(
             InjectField(doc, "SystemSerialNumber", smbios.serial),
             "MLB", smbios.mlb),
           "SystemUUID", smbios.uuid)

\* a security block without the ScanPolicy line
RuleSecurity_keepsScanPolicy(doc) ==
    replaceStringValue(
      replaceStringValue(
        replaceStringValue(doc, "SystemProductName", "MacBookAir9,1"),
        "SecureBootModel", "Disabled"),
      "DmgLoading", "Any")

\* Force Model, Force Security Settings
RuleSecurity(doc) ==
    setInteger(
      replaceStringValue(
        replaceStringValue(
          replaceStringValue(doc, "SystemProductName", "MacBookAir9,1"),
          "SecureBootModel", "Disabled"),
        "DmgLoading", "Any"),
      "ScanPolicy", "0")

\* a merge that appends -v without the includes test
MergeBootArgs_noDedup(currentArgs) ==
    LET a1 == IF ~Includes(currentArgs, "debug=0x100")
              THEN currentArgs \o " debug=0x100" ELSE currentArgs
        a2 == IF ~Includes(a1, "keepsyms=1") THEN a1 \o " keepsyms=1" ELSE a1
    IN  Trim(CollapseSpace(a2 \o " -v"))

\* the value the boot-args rule of part_002 computes from the current one
MergeBootArgs(currentArgs) ==
    LET a1 == IF ~Includes(currentArgs, "debug=0x100")
              THEN currentArgs \o " debug=0x100" ELSE currentArgs
        a2 == IF ~Includes(a1, "keepsyms=1") THEN a1 \o " keepsyms=1" ELSE a1
        a3 == IF ~Includes(a2, "-v") THEN a2 \o " -v" ELSE a2
    IN  Trim(CollapseSpace(a3))

\* if (newArgs !== currentArgs) patched = patched.replace(rx, `$1${newArgs}$3`)
WriteBootArgs(doc, rx, currentArgs, newArgs) ==
    IF newArgs # currentArgs
    THEN ReplaceFirst(doc, rx, "$1" \o newArgs \o "$3")
    ELSE doc

\* if (match) { ... }, match being the result of patched.match(bootArgsRegex)
MergeIntoMatch(doc, rx, match) ==
    IF match.found
    THEN WriteBootArgs(doc, rx, match.caps[2], MergeBootArgs(match.caps[2]))
    ELSE doc

\* Boot Args
RuleBootArgs(doc) ==
    MergeIntoMatch(doc, RxValue("boot-args", "string", TRUE),
                   Exec(RxValue("boot-args", "string", TRUE), doc, 1))

\* the version-tagged AirportItlwm variants, in the order they are disabled
AirportVariants ==
    << "AirportItlwm-Catalina.kext", "AirportItlwm-BigSur.kext",
       "AirportItlwm-Monterey.kext", "AirportItlwm-Ventura.kext",
       "AirportItlwm-Sonoma.kext", "AirportItlwm-Sonoma144.kext" >>

\* the variant the else-if chain enables for a version tag ("": none)
SelectedVariant(macosVersion) ==
    IF StartsWith(macosVersion, "Catalina") \/ StartsWith(macosVersion, "10.15")
    THEN "AirportItlwm-Catalina.kext"
    ELSE IF StartsWith(macosVersion, "Big Sur") \/ StartsWith(macosVersion, "11.")
    THEN "AirportItlwm-BigSur.kext"
    ELSE IF StartsWith(macosVersion, "Monterey") \/ StartsWith(macosVersion, "12.")
    THEN "AirportItlwm-Monterey.kext"
    ELSE IF StartsWith(macosVersion, "Ventura") \/ StartsWith(macosVersion, "13.")
    THEN "AirportItlwm-Ventura.kext"
    ELSE IF StartsWith(macosVersion, "Sonoma") \/ StartsWith(macosVersion, "14.")
    THEN "AirportItlwm-Sonoma144.kext"
    ELSE IF StartsWith(macosVersion, "Sequoia") \/ StartsWith(macosVersion, "15.")
    THEN "AirportItlwm-Sonoma144.kext"
    ELSE ""

RECURSIVE DisableAll(_, _)
DisableAll(doc, i) ==
    IF i > Len(AirportVariants) THEN doc
    ELSE CHOOSE r \in { DisableAll(d, i + 1) :
                          d \in { toggleKext(doc, AirportVariants[i], FALSE) } } : TRUE

\* Enable specific: the variant the else-if chain selected ("": none)
EnableSpecific(doc, variant) ==
    IF variant = "" THEN doc ELSE toggleKext(doc, variant, TRUE)

\* Toggle AirportItlwm based on version
RuleKexts(doc, macosVersion) ==
    IF macosVersion = "" THEN doc
    ELSE EnableSpecific(DisableAll(doc, 1), SelectedVariant(macosVersion))

\* Enforce Critical Quirks (Surface Pro 7)
RuleQuirks(doc) ==
    CHOOSE q12 \in
      { toggleBool(q11, "EnableWriteUnprotector", FALSE) : q11 \in
      { toggleBool(q10, "SyncRuntimePermissions", TRUE) : q10 \in
      { toggleBool(q9, "RebuildAppleMemoryMap", TRUE) : q9 \in
      { toggleBool(q8, "ReleaseUsbOwnership", FALSE) : q8 \in
      { setInteger(q7, "ProvideMaxSlide", "0") : q7 \in
      { toggleBool(q6, "ProvideCustomSlide", TRUE) : q6 \in
      { toggleBool(q5, "ProtectUefiServices", TRUE) : q5 \in
      { toggleBool(q4, "SetupVirtualMap", TRUE) : q4 \in
      { toggleBool(q3, "DevirtualiseMmio", TRUE) : q3 \in
      { toggleBool(q2, "DisableIoMapper", TRUE) : q2 \in
      { toggleBool(q1, "AppleCpuPmCfgLock", FALSE) : q1 \in
      { toggleBool(doc, "AppleXcpmCfgLock", TRUE) } } } } } } } } } } } } : TRUE

\* Logging
RuleLogging(doc) ==
    setInteger(
      setInteger(
        setInteger(
          setInteger(doc, "Target", "67"),
          "DisplayLevel", "2147483714"),
        "DisplayDelay", "0"),
      "ResizeAppleGpuBars", "-1")

\* patchContent(fileContent) with the handler's smbios and macosVersion
\* (each rule is a statement: it runs on the value the one before it left)
patchContent(fileContent, smbios, macosVersion) ==
    CHOOSE patched \in
      { RuleLogging(q) : q \in
        { RuleQuirks(k) : k \in
          { RuleKexts(b, macosVersion) : b \in
            { RuleBootArgs(c) : c \in
              { RuleSecurity(i) : i \in
                { RuleSmbios(fileContent, smbios) } } } } } } : TRUE

(***************************************************************************)
(* The rest of the part_002 handler: Drivers block and HideAuxiliary       *)
(***************************************************************************)

driversBlock ==
       "\t\t<key>Drivers</key>\n"
    \o "\t\t<array>\n"
    \o "\t\t\t<dict>\n"
    \o "\t\t\t\t<key>Arguments</key>\n"
    \o "\t\t\t\t<string></string>\n"
    \o "\t\t\t\t<key>Comment</key>\n"
    \o "\t\t\t\t<string></string>\n"
    \o "\t\t\t\t<key>Enabled</key>\n"
    \o "\t\t\t\t<true/>\n"
    \o "\t\t\t\t<key>LoadEarly</key>\n"
    \o "\t\t\t\t<true/>\n"
    \o "\t\t\t\t<key>Path</key>\n"
    \o "\t\t\t\t<string>ExFatDxe.efi</string>\n"
    \o "\t\t\t</dict>\n"
    \o "\t\t\t<dict>\n"
    \o "\t\t\t\t<key>Arguments</key>\n"
    \o "\t\t\t\t<string></string>\n"
    \o "\t\t\t\t<key>Comment</key>\n"
    \o "\t\t\t\t<string></string>\n"
    \o "\t\t\t\t<key>Enabled</key>\n"
    \o "\t\t\t\t<true/>\n"
    \o "\t\t\t\t<key>LoadEarly</key>\n"
    \o "\t\t\t\t<true/>\n"
    \o "\t\t\t\t<key>Path</key>\n"
    \o "\t\t\t\t<string>HfsPlus.efi</string>\n"
    \o "\t\t\t</dict>\n"
    \o "\t\t\t<dict>\n"
    \o "\t\t\t\t<key>Arguments</key>\n"
    \o "\t\t\t\t<string></string>\n"
    \o "\t\t\t\t<key>Comment</key>\n"
    \o "\t\t\t\t<string></string>\n"
    \o "\t\t\t\t<key>Enabled</key>\n"
    \o "\t\t\t\t<true/>\n"
    \o "\t\t\t\t<key>LoadEarly</key>\n"
    \o "\t\t\t\t<false/>\n"
    \o "\t\t\t\t<key>Path</key>\n"
    \o "\t\t\t\t<string>OpenRuntime.efi</string>\n"
    \o "\t\t\t</dict>\n"
    \o "\t\t\t<dict>\n"
    \o "\t\t\t\t<key>Arguments</key>\n"
    \o "\t\t\t\t<string></string>\n"
    \o "\t\t\t\t<key>Comment</key>\n"
    \o "\t\t\t\t<string></string>\n"
    \o "\t\t\t\t<key>Enabled</key>\n"
    \o "\t\t\t\t<true/>\n"
    \o "\t\t\t\t<key>LoadEarly</key>\n"
    \o "\t\t\t\t<false/>\n"
    \o "\t\t\t\t<key>Path</key>\n"
    \o "\t\t\t\t<string>OpenCanopy.efi</string>\n"
    \o "\t\t\t</dict>\n"
    \o "\t\t\t<dict>\n"
    \o "\t\t\t\t<key>Arguments</key>\n"
    \o "\t\t\t\t<string></string>\n"
    \o "\t\t\t\t<key>Comment</key>\n"
    \o "\t\t\t\t<string></string>\n"
    \o "\t\t\t\t<key>Enabled</key>\n"
    \o "\t\t\t\t<true/>\n"
    \o "\t\t\t\t<key>LoadEarly</key>\n"
    \o "\t\t\t\t<false/>\n"
    \o "\t\t\t\t<key>Path</key>\n"
    \o "\t\t\t\t<string>ResetNvramEntry.efi</string>\n"
    \o "\t\t\t</dict>\n"
    \o "\t\t\t<dict>\n"
    \o "\t\t\t\t<key>Arguments</key>\n"
    \o "\t\t\t\t<string></string>\n"
    \o "\t\t\t\t<key>Comment</key>\n"
    \o "\t\t\t\t<string></string>\n"
    \o "\t\t\t\t<key>Enabled</key>\n"
    \o "\t\t\t\t<true/>\n"
    \o "\t\t\t\t<key>LoadEarly</key>\n"
    \o "\t\t\t\t<false/>\n"
    \o "\t\t\t\t<key>Path</key>\n"
    \o "\t\t\t\t<string>ToggleSipEntry.efi</string>\n"
    \o "\t\t\t</dict>\n"
    \o "\t\t</array>"

\* a Drivers step that adds the block to a template that has no Drivers array
RuleDrivers_inserts(raw) ==
    IF Test(RxDrivers, raw) THEN ReplaceFirst(raw, RxDrivers, driversBlock)
    ELSE driversBlock \o raw

\* Replace the entire Drivers array
RuleDrivers(raw) ==
    IF Test(RxDrivers, raw) THEN ReplaceFirst(raw, RxDrivers, driversBlock) ELSE raw

\* a rewrite that is not anchored on the key: the first <true/> of the file
RuleHideAuxiliary_anyTrue(raw) ==
    LET i == IndexOf(raw, "<true/>", 1)
    IN  IF i = 0 THEN raw
        ELSE SubSeq(raw, 1, i - 1) \o "<false/>"
             \o SubSeq(raw, i + Len("<true/>"), Len(raw))

\* Force HideAuxiliary to False
RuleHideAuxiliary(raw) ==
    IF Includes(raw, "<key>HideAuxiliary</key>")
    THEN ReplaceFirst(raw, RxTrue("HideAuxiliary"), "$1<false/>")
    ELSE raw

\* what the handler writes to config.plist for the template it read
InjectConfig(raw, smbios, macosVersion) ==
    CHOOSE patched \in
      { patchContent(h, smbios, macosVersion) : h \in
        { RuleHideAuxiliary(d) : d \in { RuleDrivers(raw) } } } : TRUE

(***************************************************************************)
(* The handler of main.js (and part_001)                                   *)
(***************************************************************************)

\* Step 2: Inject SMBIOS; smbios is dereferenced without a check
MainJsSmbios(doc, smbios) ==
    replaceStringValue(RuleSmbios(doc, smbios), "SystemProductName", "MacBookAir9,1")

\* the value Step 3 computes from the current boot-args
MainJsMergeBootArgs(currentArgs, verbose) ==
    LET hasVerbose == Includes(currentArgs, "-v")
    IN  IF verbose /\ ~hasVerbose THEN currentArgs \o " -v"
        ELSE IF ~verbose /\ hasVerbose
        THEN Trim(CollapseSpace(RemoveFirst(currentArgs, "-v")))
        ELSE currentArgs

\* if (match) { ... }, match being the result of content.match(bootArgsRegex)
MainJsMergeIntoMatch(doc, rx, match, verbose) ==
    IF match.found
    THEN WriteBootArgs(doc, rx, match.caps[2],
                       MainJsMergeBootArgs(match.caps[2], verbose))
    ELSE doc

\* Step 3: Handle Verbose Mode (boot-args)
MainJsBootArgs(doc, verbose) ==
    MainJsMergeIntoMatch(doc, RxValue("boot-args", "string", FALSE),
                         Exec(RxValue("boot-args", "string", FALSE), doc, 1),
                         verbose)

\* Step 4: Handle Kexts (AirportItlwm vs itlwm)
MainJsKexts(doc, macosVersion) ==
    toggleKext(toggleKext(doc, "AirportItlwm.kext", macosVersion = "sonoma"),
               "itlwm.kext", macosVersion = "sequoia")

\* Step 5: Enforce Critical Quirks
MainJsQuirks(doc) ==
    toggleBool(
      toggleBool(
        toggleBool(
          toggleBool(
            toggleBool(doc, "AppleXcpmCfgLock", TRUE),
            "AppleCpuPmCfgLock", FALSE),
          "DisableIoMapper", TRUE),
        "DevirtualiseMmio", TRUE),
      "SetupVirtualMap", TRUE)

\* disableSecureBoot(): the replace is guarded by regex.test(content)
disableSecureBoot(doc) ==
    IF Test(RxValue("SecureBootModel", "string", FALSE), doc)
    THEN replaceStringValue(doc, "SecureBootModel", "Disabled")
    ELSE doc

\* Reveal Auxiliary Entries (the text of toggleBool with regexAux), Disable
\* SecureBootModel, ScanPolicy, DmgLoading
MainJsSecurity(doc) ==
    replaceStringValue(
      setInteger(
        disableSecureBoot(toggleBool(doc, "HideAuxiliary", FALSE)),
        "ScanPolicy", "0"),
      "DmgLoading", "Any")

\* what the main.js handler writes to config.plist for the source it read
MainJsInjectConfig(doc, smbios, macosVersion, verbose) ==
    CHOOSE written \in
      { MainJsSecurity(q) : q \in
        { MainJsQuirks(k) : k \in
          { MainJsKexts(b, macosVersion) : b \in
            { MainJsBootArgs(i, verbose) : i \in
              { MainJsSmbios(doc, smbios) } } } } } : TRUE

(***************************************************************************)
(* Documents: the XML property list the handler reads                      *)
(***************************************************************************)

PlistHead ==
       "<?xml version=\"1.0\" encoding=\"UTF-8\"?>\n"
    \o "<plist version=\"1.0\">\n<dict>\n"

PlistTail == "</dict>\n</plist>\n"

StringEntry(key, ws, value) ==
    "\t" \o KeyLit(key) \o ws \o "<string>" \o value \o "</string>\n"

BoolEntry(key, ws, b) == "\t" \o KeyLit(key) \o ws \o BoolTag(b) \o "\n"

\* the whitespace-delimited tokens of a boot-args value, in order
RECURSIVE TokenEnd(_, _)
TokenEnd(s, i) ==
    IF i <= Len(s) /\ ~IsSpace(CharAt(s, i)) THEN TokenEnd(s, i + 1) ELSE i

RECURSIVE Tokenize(_)
Tokenize(s) ==
    LET a == SkipSpace(s, 1)
        b == TokenEnd(s, a)
    IN  IF a > Len(s) THEN <<>>
        ELSE <<SubSeq(s, a, b - 1)>> \o Tokenize(SubSeq(s, b, Len(s)))

\* the text of the first boot-args string element of a document
BootArgsOf(doc) == Exec(RxValue("boot-args", "string", TRUE), doc, 1).caps[2]

(***************************************************************************)
(* The boot-args rule of both handlers on bounded boot-args values         *)
(***************************************************************************)

MaxTokens == 2

ArgTokens == {"-v", "keepsyms=1", "debug=0x100", "-vsmcgen=1", "alcid=3"}

ArgSeparators == {" ", "  "}

RECURSIVE ArgsOfLen(_)
ArgsOfLen(n) ==
    IF n = 0 THEN {"", " -v", "alcid=3 ", "-v\nalcid=3"}
    ELSE IF n = 1 THEN ArgTokens
    ELSE {a \o sep \o t : a \in ArgsOfLen(n - 1), sep \in ArgSeparators, t \in ArgTokens}

BootArgsValues == UNION {ArgsOfLen(n) : n \in 0..MaxTokens}

BootArgsDoc(value) ==
       PlistHead
    \o StringEntry("boot-args", "\n\t", value)
    \o "\t<key>csr-active-config</key>\n\t<data>AAAAAA==</data>\n"
    \o PlistTail

BootArgsInit ==
    /\ pc = "start"
    /\ \E value \in BootArgsValues : template = BootArgsDoc(value)
    /\ params \in [handler : {"main.js", "part_002"}, verbose : BOOLEAN]
    /\ prev = template
    /\ content = template
    /\ destConfig = "" /\ console = <<>> /\ thrown = ""

\* main.js Step 3 with the caller's verbose flag
MainJsBootArgsStep ==
    /\ pc = "start"
    /\ params.handler = "main.js"
    /\ content' = MainJsBootArgs(content, params.verbose)
    /\ prev' = content
    /\ pc' = "done"
    /\ UNCHANGED <<template, params, io>>

\* the Boot Args block of patchContent, which does not read verbose
BootArgsStep ==
    /\ pc = "start"
    /\ params.handler = "part_002"
    /\ content' = RuleBootArgs(content)
    /\ prev' = content
    /\ pc' = "done"
    /\ UNCHANGED <<template, params, io>>

BootArgsNext == MainJsBootArgsStep \/ BootArgsStep

SpecBootArgs == BootArgsInit /\ [][BootArgsNext]_vars

\* C2 as stated: with verbose requested, "-v" stays "-v" and "keepsyms=1"
\* becomes "keepsyms=1 -v", whichever handler runs.
C2_MergeAsStated ==
    (pc = "done" /\ params.verbose) =>
        /\ BootArgsOf(template) = "-v" => BootArgsOf(content) = "-v"
        /\ BootArgsOf(template) = "keepsyms=1"
              => BootArgsOf(content) = "keepsyms=1 -v"

\* C2 (amended): the merge is additive and deduplicating.  With verbose
\* requested main.js turns "-v" into "-v" and "keepsyms=1" into
\* "keepsyms=1 -v"; patchContent of part_002, whose required tokens are
\* debug=0x100, keepsyms=1 and -v, turns "-v" into "-v debug=0x100 keepsyms=1"
\* and "keepsyms=1" into "keepsyms=1 debug=0x100 -v": the original tokens
\* first, every missing required token appended once, none duplicated.
C2_MergeAdditiveDedup ==
    (pc = "done" /\ params.verbose) =>
        /\ BootArgsOf(template) = "-v" =>
              BootArgsOf(content) = IF params.handler = "main.js" THEN "-v"
                                    ELSE "-v debug=0x100 keepsyms=1"
        /\ BootArgsOf(template) = "keepsyms=1" =>
              BootArgsOf(content) = IF params.handler = "main.js" THEN "keepsyms=1 -v"
                                    ELSE "keepsyms=1 debug=0x100 -v"

C2_Witness ==
    /\ pc = "done"
    /\ params.verbose
    /\ params.handler = "part_002"
    /\ BootArgsOf(template) = "keepsyms=1"
    /\ BootArgsOf(content) = "keepsyms=1 debug=0x100 -v"

\* the tokens a handler's boot-args rule is about
RequiredTokens(handler) ==
    IF handler = "main.js" THEN {"-v"} ELSE {"debug=0x100", "keepsyms=1", "-v"}

NotRequired(handler, tokens) ==
    SelectSeq(tokens, LAMBDA t : t \notin RequiredTokens(handler))

\* a is b with some elements left out
RECURSIVE IsSubsequence(_, _)
IsSubsequence(a, b) ==
    IF a = <<>> THEN TRUE
    ELSE IF b = <<>> THEN FALSE
    ELSE IF Head(a) = Head(b) THEN IsSubsequence(Tail(a), Tail(b))
    ELSE IsSubsequence(a, Tail(b))

\* C5: the boot-args rule never removes, reorders or modifies an unrelated
\* token: the original tokens other than the required ones all appear in the
\* patched value, intact and in their original order, for every value of
\* verbose.
C5_UnrelatedTokensKept ==
    pc = "done" =>
        IsSubsequence(NotRequired(params.handler, Tokenize(BootArgsOf(template))),
                      Tokenize(BootArgsOf(content)))

NoStrayWhitespace(s) ==
    /\ s # "" => ~IsSpace(CharAt(s, 1)) /\ ~IsSpace(CharAt(s, Len(s)))
    /\ \A i \in 1..(Len(s) - 1) : ~(IsSpace(CharAt(s, i)) /\ IsSpace(CharAt(s, i + 1)))

\* C6: whenever the merge adds a token, the boot-args string written to the
\* document has no leading or trailing whitespace and no run of two or more
\* whitespace characters.
C6_MergedValueNormalised ==
    (pc = "done" /\ Len(Tokenize(BootArgsOf(content))) > Len(Tokenize(BootArgsOf(template))))
        => NoStrayWhitespace(BootArgsOf(content))

(***************************************************************************)
(* toggleKext on arrays of sibling kext records                            *)
(***************************************************************************)

MaxRecords == 2

KextNames == {"AirportItlwm.kext", "itlwm.kext", "Lilu.kext"}

\* the key orders of a record: OpenCore's (BundlePath before Enabled) and
\* one with Enabled before BundlePath
KeyOrders == {"path-first", "enabled-first"}

KextRecordSet == [name : KextNames, enabled : BOOLEAN, order : KeyOrders]

\* one <dict> of Kernel -> Add
KextRecord(r) ==
    LET path    == "\t\t\t\t<key>BundlePath</key>\n\t\t\t\t<string>" \o r.name \o "</string>\n"
        comment == "\t\t\t\t<key>Comment</key>\n\t\t\t\t<string></string>\n"
        enabled == "\t\t\t\t<key>Enabled</key>\n\t\t\t\t" \o BoolTag(r.enabled) \o "\n"
        exec    == "\t\t\t\t<key>ExecutablePath</key>\n\t\t\t\t<string>Contents/MacOS/x</string>\n"
    IN  "\t\t\t<dict>\n"
        \o (IF r.order = "path-first"
            THEN path \o comment \o enabled \o exec
            ELSE enabled \o comment \o path \o exec)
        \o "\t\t\t</dict>\n"

RECURSIVE KextRecords(_)
KextRecords(recs) ==
    IF recs = <<>> THEN "" ELSE KextRecord(Head(recs)) \o KextRecords(Tail(recs))

KernelAdd(recs) ==
       "\t<key>Kernel</key>\n\t<dict>\n\t\t<key>Add</key>\n\t\t<array>\n"
    \o KextRecords(recs)
    \o "\t\t</array>\n\t</dict>\n"

KextDoc(recs) == PlistHead \o KernelAdd(recs) \o PlistTail

\* arrays of 2..MaxRecords records with pairwise different names
KextArrays ==
    {recs \in UNION {[1..n -> KextRecordSet] : n \in 2..MaxRecords} :
        \A i, j \in DOMAIN recs : i # j => recs[i].name # recs[j].name}

ToggleInit ==
    /\ pc = "start"
    /\ \E recs \in KextArrays, i \in 1..MaxRecords, v \in BOOLEAN :
          /\ i \in DOMAIN recs
          /\ params = [recs |-> recs, marked |-> i,
                       kextName |-> recs[i].name, shouldEnable |-> v]
          /\ template = KextDoc(recs)
    /\ prev = template
    /\ content = template
    /\ destConfig = "" /\ console = <<>> /\ thrown = ""

ToggleKextStep ==
    /\ pc = "start"
    /\ content' = toggleKext(content, params.kextName, params.shouldEnable)
    /\ prev' = content
    /\ pc' = "done"
    /\ UNCHANGED <<template, params, io>>

ToggleNext == ToggleKextStep

SpecToggle == ToggleInit /\ [][ToggleNext]_vars

\* the array with the Enabled value of record i set to v
WithEnabled(recs, i, v) == [recs EXCEPT ![i].enabled = v]

\* C1 as stated: whatever the order of the keys inside each dictionary,
\* toggleKext(M, v) rewrites the Enabled boolean of the dictionary that
\* contains M and leaves every sibling's Enabled value unchanged.
C1_IsolationAnyOrder ==
    pc = "done" =>
        content = KextDoc(WithEnabled(params.recs, params.marked, params.shouldEnable))

\* C1 (amended): when the marker comes before the Enabled key inside its
\* dictionary, toggleKext(M, v) rewrites exactly that dictionary's Enabled
\* boolean and leaves the siblings unchanged; when the Enabled key comes
\* before the marker, the toggle rewrites the Enabled boolean of the next
\* sibling instead (it is within the 500 characters), or nothing when no
\* sibling follows.
C1_IsolationMarkerFirst ==
    pc = "done" =>
        LET i == params.marked
            recs == params.recs
        IN  IF recs[i].order = "path-first"
            THEN content = KextDoc(WithEnabled(recs, i, params.shouldEnable))
            ELSE IF i < Len(recs)
            THEN content = KextDoc(WithEnabled(recs, i + 1, params.shouldEnable))
            ELSE content = template

C1_Witness ==
    /\ pc = "done"
    /\ params.recs[params.marked].order = "path-first"
    /\ params.marked = 1
    /\ params.recs[1].enabled # params.shouldEnable
    /\ params.recs[2].enabled # params.shouldEnable
    /\ content # template
    /\ content = KextDoc(WithEnabled(params.recs, 1, params.shouldEnable))

(***************************************************************************)
(* replaceStringValue on documents made of key/value entries               *)
(***************************************************************************)

MaxEntries == 2

\* an entry: <key>K</key>, whitespace, a typed value element (tag "bool":
\* <true/> or <false/>), a separator
Entry(key, ws, tag, value, sep) ==
    [key |-> key, ws |-> ws, tag |-> tag, value |-> value, sep |-> sep]

RenderEntry(e) ==
    "\t" \o KeyLit(e.key) \o e.ws
         \o (IF e.tag = "bool" THEN "<" \o e.value \o "/>"
             ELSE "<" \o e.tag \o ">" \o e.value \o "</" \o e.tag \o ">")
         \o e.sep

RECURSIVE RenderEntries(_)
RenderEntries(es) ==
    IF es = <<>> THEN "" ELSE RenderEntry(Head(es)) \o RenderEntries(Tail(es))

EntryDoc(es) == PlistHead \o RenderEntries(es) \o PlistTail

\* sequences of at most n entries drawn from a set
EntrySeqs(set, n) == UNION {[1..k -> set] : k \in 0..n}

SmbiosEntries ==
    { Entry("SystemSerialNumber", "\n\t", "string", "PLACEHOLDER", "\n"),
      Entry("SystemSerialNumber", "", "string", "", ""),
      Entry("SystemSerialNumber", " ", "integer", "7", "\n"),
      Entry("SystemSerialNumber", "\n\t", "string", "two\nlines", "\n"),
      Entry("MLB", "\n\t", "string", "M0000000000000001", "\n"),
      Entry("OldSystemSerialNumber", "", "string", "X", ""),
      Entry("Comment", "", "string", "SystemSerialNumber", "\n") }

\* supplied values: a generated serial, values with replacement patterns, and
\* a value with characters that XML reserves
SerialValues == {"C02ABC123XYZ", "C02$&", "$'", "$$1", "C02<R&D>"}

RewriteInit ==
    /\ pc = "start"
    /\ \E es \in EntrySeqs(SmbiosEntries, MaxEntries), v \in SerialValues :
          /\ params = [entries |-> es, key |-> "SystemSerialNumber", value |-> v]
          /\ template = EntryDoc(es)
    /\ prev = template
    /\ content = template
    /\ destConfig = "" /\ console = <<>> /\ thrown = ""

ReplaceStringValueStep ==
    /\ pc = "start"
    /\ content' = replaceStringValue(content, params.key, params.value)
    /\ prev' = content
    /\ pc' = "done"
    /\ UNCHANGED <<template, params, io>>

RewriteNext == ReplaceStringValueStep

SpecRewrite == RewriteInit /\ [][RewriteNext]_vars

\* the entries whose value the call may rewrite: key exactly `key`, a string
IsTarget(e, key) == e.key = key /\ e.tag = "string"

\* doc, from position pos on, is the entries es in order with every
\* non-target entry byte-identical and, for a target entry, only the text
\* between <string> and </string> different; then the tail of the document
RECURSIVE FrameFits(_, _, _, _)
FrameFits(doc, pos, es, key) ==
    IF es = <<>> THEN SubSeq(doc, pos, Len(doc)) = PlistTail
    ELSE LET e    == Head(es)
             open == "\t" \o KeyLit(e.key) \o e.ws \o "<string>"
             shut == "</string>" \o e.sep
         IN  IF ~IsTarget(e, key)
             THEN /\ StartsWithAt(doc, pos, RenderEntry(e))
                  /\ FrameFits(doc, pos + Len(RenderEntry(e)), Tail(es), key)
             ELSE /\ StartsWithAt(doc, pos, open)
                  /\ \E x \in (pos + Len(open))..Len(doc) :
                        /\ StartsWithAt(doc, x, shut)
                        /\ FrameFits(doc, x + Len(shut), Tail(es), key)

\* the entries with the value of every single-line target replaced by v
Rewritten(es, key, v) ==
    [i \in DOMAIN es |->
        IF IsTarget(es[i], key) /\ NoLineTerminator(es[i].value, 1, Len(es[i].value))
        THEN [es[i] EXCEPT !.value = v] ELSE es[i]]

\* C7: replaceStringValue('SystemSerialNumber', v) changes only the
\* characters between <string> and </string> of entries whose key is exactly
\* SystemSerialNumber; every other key element and value is byte-identical,
\* for every supplied v (and for a v without $ the result is the document
\* with exactly those values set to v).
C7_NonInterference ==
    pc = "done" =>
        /\ StartsWithAt(content, 1, PlistHead)
        /\ FrameFits(content, Len(PlistHead) + 1, params.entries, params.key)
        /\ ~Includes(params.value, "$") =>
              content = EntryDoc(Rewritten(params.entries, params.key, params.value))

C7_Witness ==
    /\ pc = "done"
    /\ Len(params.entries) = 2
    /\ params.entries[1].key = "OldSystemSerialNumber"
    /\ IsTarget(params.entries[2], params.key)
    /\ params.entries[2].value = "PLACEHOLDER"
    /\ params.value = "C02ABC123XYZ"
    /\ content # template
    /\ content = EntryDoc([params.entries EXCEPT ![2].value = "C02ABC123XYZ"])

(***************************************************************************)
(* Quirk enforcement, applied repeatedly                                   *)
(***************************************************************************)

MaxRuns == 2

QuirkEntries ==
    { Entry("AppleXcpmCfgLock", "\n\t", "bool", "false", "\n"),
      Entry("AppleXcpmCfgLock", "", "bool", "true", ""),
      Entry("AppleCpuPmCfgLock", "\n\t", "bool", "true", "\n"),
      Entry("SetupVirtualMap", "\n", "bool", "false", ""),
      Entry("EnableWriteUnprotector", "\n\t", "bool", "true", "\n"),
      Entry("ProvideMaxSlide", " ", "integer", "5", "\n"),
      Entry("DisableIoMapper", "", "string", "false", "\n"),
      Entry("DisableIoMapper", " ", "bool", "false", "\n"),
      Entry("Enabled", "\n\t", "bool", "false", "\n") }

QuirksInit ==
    /\ pc = 0
    /\ \E es \in EntrySeqs(QuirkEntries, MaxEntries) :
      \E h \in {"main.js", "part_002"} :
          /\ params = [entries |-> es, handler |-> h]
          /\ template = EntryDoc(es)
    /\ prev = template
    /\ content = template
    /\ destConfig = "" /\ console = <<>> /\ thrown = ""

\* the quirk block of patchContent, once more
QuirksStep ==
    /\ pc < MaxRuns
    /\ params.handler = "part_002"
    /\ content' = RuleQuirks(content)
    /\ prev' = content
    /\ pc' = pc + 1
    /\ UNCHANGED <<template, params, io>>

\* the ensureQuirk calls of main.js, once more
MainJsQuirksStep ==
    /\ pc < MaxRuns
    /\ params.handler = "main.js"
    /\ content' = MainJsQuirks(content)
    /\ prev' = content
    /\ pc' = pc + 1
    /\ UNCHANGED <<template, params, io>>

QuirksNext == QuirksStep \/ MainJsQuirksStep

SpecQuirks == QuirksInit /\ [][QuirksNext]_vars

\* C8: applying the quirk-enforcement step twice yields a byte-identical
\* document to applying it once.
C8_QuirksIdempotent == pc >= 2 => content = prev

C8_Witness ==
    /\ pc = 2
    /\ prev # template
    /\ content = prev
    /\ Includes(template, "<key>AppleXcpmCfgLock</key>\n\t<false/>")
    /\ Includes(content, "<key>AppleXcpmCfgLock</key>\n\t<true/>")

(***************************************************************************)
(* The whole handler, run and re-run on the file it wrote                  *)
(***************************************************************************)

\* the values of the UI's MacOSVersion type, and two display names
UiTags == {"sonoma", "sequoia"}

VersionTags == UiTags \cup {"Sonoma", "Ventura"}

PathFirst(name, enabled) ==
    [name |-> name, enabled |-> enabled, order |-> "path-first"]

\* Kernel -> Add with a record for every AirportItlwm variant, record `on`
\* enabled
AllVariants(on) ==
    [i \in 1..Len(AirportVariants) |-> PathFirst(AirportVariants[i], i = on)]

\* the Kernel -> Add arrays of the templates each handler is run on
PipelineKexts(handler) ==
    IF handler = "main.js"
    THEN { << PathFirst("AirportItlwm.kext", TRUE), PathFirst("itlwm.kext", FALSE) >> }
    ELSE { << PathFirst("AirportItlwm-Ventura.kext", TRUE),
              PathFirst("AirportItlwm-Sonoma144.kext", FALSE) >>,
           AllVariants(1), AllVariants(5) }

\* UEFI -> Drivers as a template carries it, and Misc -> Boot -> HideAuxiliary
UefiAndMisc ==
       "\t<key>Misc</key>\n\t<dict>\n"
    \o "\t\t<key>HideAuxiliary</key>\n\t\t<true/>\n"
    \o "\t</dict>\n"
    \o "\t<key>UEFI</key>\n\t<dict>\n"
    \o "\t\t<key>Drivers</key>\n\t\t<array>\n"
    \o "\t\t\t<string>OpenRuntime.efi</string>\n"
    \o "\t\t</array>\n"
    \o "\t</dict>\n"

ConfigDoc(serial, args, recs, extras) ==
       PlistHead
    \o StringEntry("SystemSerialNumber", "\n\t", serial)
    \o StringEntry("boot-args", "\n\t", args)
    \o KernelAdd(recs)
    \o (IF extras THEN UefiAndMisc ELSE "")
    \o PlistTail

PipelineInit ==
    /\ pc = 0
    /\ \E h \in {"main.js", "part_002"}, args \in {"", "keepsyms=1"},
          extras \in BOOLEAN, tag \in VersionTags, verbose \in BOOLEAN :
       \E recs \in PipelineKexts(h) :
          /\ h = "part_002" => verbose
          /\ params = [handler |-> h, args |-> args, extras |-> extras,
                       recs |-> recs, macosVersion |-> tag, verbose |-> verbose,
                       smbios |-> Smbios("C02ABC123XYZ", "C02000000000000AB",
                                         "11111111-2222-3333-4444-555555555555")]
          /\ template = ConfigDoc("PLACEHOLDER", args, recs, extras)
    /\ prev = template
    /\ content = template
    /\ destConfig = "" /\ console = <<>> /\ thrown = ""

\* one run of the part_002 pipeline on the document as it is now
InjectConfigStep ==
    /\ pc < MaxRuns
    /\ params.handler = "part_002"
    /\ content' = InjectConfig(content, params.smbios, params.macosVersion)
    /\ prev' = content
    /\ pc' = pc + 1
    /\ UNCHANGED <<template, params, io>>

\* one run of the main.js handler on the file as it is now
MainJsInjectConfigStep ==
    /\ pc < MaxRuns
    /\ params.handler = "main.js"
    /\ content' = MainJsInjectConfig(content, params.smbios, params.macosVersion,
                                     params.verbose)
    /\ prev' = content
    /\ pc' = pc + 1
    /\ UNCHANGED <<template, params, io>>

PipelineNext == InjectConfigStep \/ MainJsInjectConfigStep

SpecPipeline == PipelineInit /\ [][PipelineNext]_vars

\* the Enabled value a document carries for the record whose BundlePath is
\* name (the record lists BundlePath before Enabled)
KextEnabled(doc, name) ==
    LET p == IndexOf(doc, "<string>" \o name \o "</string>", 1)
        k == IF p = 0 THEN 0 ELSE IndexOf(doc, KeyLit("Enabled"), p)
    IN  /\ k # 0
        /\ StartsWithAt(doc, SkipSpace(doc, k + Len(KeyLit("Enabled"))), "<true/>")

\* the scenario of C3: empty boot-args, A.kext enabled, B.kext disabled, a
\* version tag that selects B.kext, verboseBoot = true, one run
C3_Scenario ==
    /\ pc = 1
    /\ params.args = ""
    /\ ~params.extras
    /\ params.verbose
    /\ Len(params.recs) = 2
    /\ IF params.handler = "main.js"
       THEN params.macosVersion = "sequoia"
       ELSE SelectedVariant(params.macosVersion) = params.recs[2].name

\* C3: in the end-to-end scenario the document written has SystemSerialNumber
\* = "C02ABC123XYZ", boot-args exactly "-v", A.kext disabled and B.kext
\* enabled, and nothing else differs from the template.
C3_EndToEnd ==
    C3_Scenario =>
        content = ConfigDoc("C02ABC123XYZ", "-v",
                            << PathFirst(params.recs[1].name, FALSE),
                               PathFirst(params.recs[2].name, TRUE) >>, FALSE)

\* C4: for the version tags of the UI ('sonoma', 'sequoia') and a template
\* with a record for every AirportItlwm variant, after the pipeline exactly
\* one variant is enabled (the Sonoma 14.4 build the handler uses for both
\* releases) and every other variant is disabled.
C4_ExactlyOneVariant ==
    ( /\ pc >= 1
      /\ params.handler = "part_002"
      /\ Len(params.recs) = Len(AirportVariants)
      /\ params.macosVersion \in UiTags )
    => {i \in 1..Len(AirportVariants) : KextEnabled(content, AirportVariants[i])}
         = {Len(AirportVariants)}

\* C9: running the part_002 handler on the document it wrote, with the same
\* parameters, writes a byte-identical document.
C9_RerunIsNoOp ==
    (pc >= 2 /\ params.handler = "part_002") => content = prev

(***************************************************************************)
(* The rules of the part_002 handler, applied in every order               *)
(***************************************************************************)

\* the rules in the order the handler applies them
CodeOrder == << "drivers", "hideAuxiliary", "smbios", "security", "bootArgs",
                "kexts", "quirks" >>

Rules == {CodeOrder[i] : i \in DOMAIN CodeOrder}

\* the entries the rules rewrite, one per rule family
RuleEntries ==
       BoolEntry("AppleXcpmCfgLock", "\n\t", FALSE)
    \o RenderEntry(Entry("ScanPolicy", "\n\t", "integer", "17760515", "\n"))
    \o StringEntry("SecureBootModel", "\n\t", "Default")
    \o RenderEntry(Entry("Target", "\n\t", "integer", "3", "\n"))
    \o StringEntry("SystemProductName", "\n\t", "iMac19,1")

\* the Kernel -> Add arrays of the templates: the two records of OpenCore's
\* layout, and the same with the second record's Enabled key first
OrderKexts ==
    { << PathFirst("AirportItlwm-Ventura.kext", TRUE),
         PathFirst("AirportItlwm-Sonoma144.kext", FALSE) >>,
      << PathFirst("AirportItlwm-Ventura.kext", TRUE),
         [name |-> "AirportItlwm-Sonoma.kext", enabled |-> TRUE,
          order |-> "enabled-first"] >> }

OrderDoc(args, recs) ==
       PlistHead
    \o StringEntry("SystemSerialNumber", "\n\t", "PLACEHOLDER")
    \o StringEntry("boot-args", "\n\t", args)
    \o KernelAdd(recs)
    \o UefiAndMisc
    \o RuleEntries
    \o PlistTail

\* pc: the rules that have run, and whether they ran in the handler's order
OrderInit ==
    /\ pc = [applied |-> {}, inOrder |-> TRUE]
    /\ \E recs \in OrderKexts, tag \in {"Sonoma"} :
          /\ params = [recs |-> recs, macosVersion |-> tag,
                       smbios |-> Smbios("C02ABC123XYZ", "C02000000000000AB",
                                         "11111111-2222-3333-4444-555555555555")]
          /\ template = OrderDoc("keepsyms=1", recs)
    /\ prev = template
    /\ content = template
    /\ destConfig = "" /\ console = <<>> /\ thrown = ""

\* rule r has not run yet and runs now, leaving the document doc
Apply(r, doc) ==
    /\ r \notin pc.applied
    /\ content' = doc
    /\ pc' = [applied |-> pc.applied \cup {r},
              inOrder |-> pc.inOrder /\ r = CodeOrder[Cardinality(pc.applied) + 1]]
    /\ UNCHANGED <<template, params, prev, io>>

ApplyDrivers == Apply("drivers", RuleDrivers(content))

ApplyHideAuxiliary == Apply("hideAuxiliary", RuleHideAuxiliary(content))

ApplySmbios == Apply("smbios", RuleSmbios(content, params.smbios))

ApplySecurity == Apply("security", RuleSecurity(content))

ApplyBootArgs == Apply("bootArgs", RuleBootArgs(content))

ApplyKexts == Apply("kexts", RuleKexts(content, params.macosVersion))

ApplyQuirks == Apply("quirks", RuleLogging(RuleQuirks(content)))

OrderNext ==
    \/ ApplyDrivers
    \/ ApplyHideAuxiliary
    \/ ApplySmbios
    \/ ApplySecurity
    \/ ApplyBootArgs
    \/ ApplyKexts
    \/ ApplyQuirks

SpecOrder == OrderInit /\ [][OrderNext]_vars

\* every record lists its BundlePath before its own Enabled key
MarkersFirst(recs) == \A i \in DOMAIN recs : recs[i].order = "path-first"

OldConfig == ConfigDoc("C02OLDSERIAL", "-v", <<>>, FALSE)

IoError == "EIO: i/o error"

\* console.warn('[Config] Warning: Could not find Drivers section to replace.')
DriversWarning == "warn: Could not find Drivers section to replace."

\* msg is among the lines written to the console so far
Logged(msg) == \E i \in DOMAIN console : console[i] = msg

\* the document the handler writes when every step succeeds
FullyPatched ==
    IF params.handler = "part_002"
    THEN InjectConfig(template, params.smbios, params.macosVersion)
    ELSE MainJsInjectConfig(template, params.smbios, params.macosVersion,
                            params.verbose)

\* config.plist as an earlier invocation with the same template and
\* parameters left it, when that invocation could return
WrittenBefore ==
    IF params.handler = "main.js" /\ ~params.smbios.present THEN {}
    ELSE {FullyPatched}

HandlerInit ==
    /\ pc = "start"
    /\ \E h \in {"main.js", "part_002"}, extras \in BOOLEAN,
          smbios \in {NoSmbios, Smbios("C02ABC123XYZ", "C02000000000000AB", "")},
          tag \in {"", "Sonoma"},
          paths \in {"ok", "no diskPath", "no EFI/OC", "no template"} :
       \E recs \in PipelineKexts(h) :
          /\ Len(recs) = 2
          /\ params = [handler |-> h, extras |-> extras, recs |-> recs,
                       smbios |-> smbios, macosVersion |-> tag,
                       verbose |-> TRUE, paths |-> paths]
          /\ template = ConfigDoc("PLACEHOLDER", "", recs, extras)
    /\ destConfig \in {OldConfig} \cup WrittenBefore
    /\ prev = destConfig
    /\ content = ""
    /\ console = <<>>
    /\ thrown = ""

\* if (!diskPath) throw, if (!fs.existsSync(ocPath)) throw, and the test that
\* the template (part_002) or the source config (main.js) exists
CheckPaths ==
    /\ pc = "start"
    /\ IF params.paths = "ok"
       THEN /\ pc' = IF params.handler = "part_002" THEN "copy" ELSE "read"
            /\ UNCHANGED <<console, thrown>>
       ELSE /\ pc' = "threw"
            /\ thrown' = params.paths
            /\ console' = IF params.paths = "no EFI/OC"
                          THEN Append(console, "error: OC not found")
                          ELSE console
    /\ UNCHANGED <<template, params, prev, content, destConfig>>

\* a template deploy that keeps a config.plist that is already there
CopyTemplate_keepsExisting ==
    /\ pc = "copy"
    /\ pc' = "read"
    /\ UNCHANGED <<template, params, prev, content, console, destConfig, thrown>>

\* part_002: fs.copyFileSync(localTemplatePath, destConfig)
CopyTemplate ==
    /\ pc = "copy"
    /\ \E ok \in BOOLEAN :
          IF ok
          THEN /\ destConfig' = template
               /\ pc' = "read"
               /\ UNCHANGED thrown
          ELSE /\ destConfig' \in {destConfig, ""}
               /\ pc' = "threw"
               /\ thrown' = "Failed to copy template to USB: " \o IoError
    /\ UNCHANGED <<template, params, prev, content, console>>

\* content = fs.readFileSync(...): of destConfig in part_002, of sourceConfig
\* in main.js
ReadConfig ==
    /\ pc = "read"
    /\ \E ok \in BOOLEAN :
          IF ok
          THEN /\ content' = IF params.handler = "part_002" THEN destConfig
                             ELSE template
               /\ pc' = "patch"
               /\ UNCHANGED thrown
          ELSE /\ pc' = "threw"
               /\ thrown' = IoError
               /\ UNCHANGED content
    /\ UNCHANGED <<template, params, prev, destConfig, console>>

\* part_002: raw = fs.readFileSync(destConfig), the Drivers block, HideAuxiliary
\* and patchContent(raw), all in memory
PatchConfig ==
    /\ pc = "patch"
    /\ params.handler = "part_002"
    /\ \E ok \in BOOLEAN :
          IF ok
          THEN /\ content' = InjectConfig(destConfig, params.smbios,
                                          params.macosVersion)
               /\ console' = IF Test(RxDrivers, destConfig) THEN console
                             ELSE Append(console, DriversWarning)
               /\ pc' = "write"
               /\ UNCHANGED thrown
          ELSE /\ console' = Append(console, "error: Failed to patch config.plist")
               /\ pc' = "threw"
               /\ thrown' = IoError
               /\ UNCHANGED content
    /\ UNCHANGED <<template, params, prev, destConfig>>

\* main.js: Step 2 to Step 7 on content; smbios.serial of an absent smbios
\* is a TypeError
MainJsPatchConfig ==
    /\ pc = "patch"
    /\ params.handler = "main.js"
    /\ IF params.smbios.present
       THEN /\ content' = MainJsInjectConfig(content, params.smbios,
                                             params.macosVersion, params.verbose)
            /\ pc' = "write"
            /\ UNCHANGED thrown
       ELSE /\ pc' = "threw"
            /\ thrown' = "TypeError: Cannot read properties of undefined"
            /\ UNCHANGED content
    /\ UNCHANGED <<template, params, prev, destConfig, console>>

\* fs.writeFileSync(destConfig, patched, 'utf8')
WriteConfig ==
    /\ pc = "write"
    /\ \E ok \in BOOLEAN :
          IF ok
          THEN /\ destConfig' = content
               /\ pc' = "returned"
               /\ UNCHANGED <<thrown, console>>
          ELSE /\ destConfig' \in {destConfig, ""}
               /\ pc' = "threw"
               /\ thrown' = IoError
               /\ console' = IF params.handler = "part_002"
                             THEN Append(console, "error: Failed to patch config.plist")
                             ELSE console
    /\ UNCHANGED <<template, params, prev, content>>

HandlerNext ==
    \/ CheckPaths
    \/ CopyTemplate
    \/ ReadConfig
    \/ PatchConfig
    \/ MainJsPatchConfig
    \/ WriteConfig

SpecHandler == HandlerInit /\ [][HandlerNext]_vars

\* a part_002 run on a template without <key>Drivers</key>
NoDriversRun ==
    /\ params.handler = "part_002"
    /\ params.paths = "ok"
    /\ ~Includes(template, "<key>Drivers</key>")

\* C11: when the template has no <key>Drivers</key>, the part_002 handler
\* rejects only with an I/O error; once the patch has run, the console holds
\* the Drivers warning and the document in memory is the template with
\* HideAuxiliary and patchContent applied and nothing done for Drivers; and
\* when the handler has returned, config.plist holds that document.
C11_AbsentDriversTolerated ==
    NoDriversRun =>
       /\ thrown \in {"", IoError, "Failed to copy template to USB: " \o IoError}
       /\ pc \in {"write", "returned"} =>
             /\ Logged(DriversWarning)
             /\ content = patchContent(RuleHideAuxiliary(template),
                                       params.smbios, params.macosVersion)
       /\ pc = "returned" => destConfig = content

C11_Witness ==
    /\ NoDriversRun
    /\ pc = "returned"
    /\ Logged(DriversWarning)
    /\ destConfig = content
    /\ destConfig # template
    /\ ~Includes(destConfig, "OpenCanopy.efi")

\* C12: with the disk, the EFI/OC directory and the template in place, the
\* handler rejects only with the error of a file operation, whatever keys the
\* template lacks and whether or not the caller passed an smbios object.
C12_OnlyIoAborts ==
    (params.paths = "ok" /\ pc = "threw") =>
        thrown \in {IoError, "Failed to copy template to USB: " \o IoError}

\* C13: when the handler has returned or rejected, config.plist holds either
\* what it held before the invocation or the fully patched document (or, after
\* a file operation that failed half way, nothing): never the unpatched
\* template or another document.
C13_OldOrFullyPatched ==
    pc \in {"threw", "returned"} => destConfig \in {prev, FullyPatched, ""}

(***************************************************************************)
(* Well-formedness, as a strict parser tests it: every tag closed, elements *)
(* properly nested, and no & in text except as one of the XML entities     *)
(***************************************************************************)

XmlEntities == {"&amp;", "&lt;", "&gt;", "&quot;", "&apos;"}

EscapedText(doc, a, b) ==
    \A k \in a..b :
       CharAt(doc, k) = "&" => \E en \in XmlEntities : StartsWithAt(doc, k, en)

\* the element name of a start tag: its text up to the first white space
TagName(t) == SubSeq(t, 1, TokenEnd(t, 1) - 1)

RECURSIVE Nested(_, _, _)
RECURSIVE NestedTag(_, _, _, _)
RECURSIVE NestedText(_, _, _, _)

\* doc from pos on closes the elements in `open` (innermost first) and nothing
\* else
Nested(doc, pos, open) == NestedText(doc, pos, IndexOf(doc, "<", pos), open)

\* the text from pos up to the next tag, which begins at i (0: there is none)
NestedText(doc, pos, i, open) ==
    IF i = 0 THEN open = <<>> /\ EscapedText(doc, pos, Len(doc))
    ELSE /\ EscapedText(doc, pos, i - 1)
         /\ NestedTag(doc, i, IndexOf(doc, ">", i), open)

\* the tag from i to j (0: it is not closed)
NestedTag(doc, i, j, open) ==
    IF j = 0 \/ Includes(SubSeq(doc, i + 1, j - 1), "<") THEN FALSE
    ELSE IF StartsWithAt(doc, i, "<?") \/ StartsWithAt(doc, i, "<!")
    THEN Nested(doc, j + 1, open)
    ELSE IF StartsWithAt(doc, i, "</")
    THEN /\ open # <<>>
         /\ Head(open) = SubSeq(doc, i + 2, j - 1)
         /\ Nested(doc, j + 1, Tail(open))
    ELSE IF CharAt(doc, j - 1) = "/"
    THEN Nested(doc, j + 1, open)
    ELSE Nested(doc, j + 1, <<TagName(SubSeq(doc, i + 1, j - 1))>> \o open)

WellFormed(doc) == Nested(doc, 1, <<>>)

\* C14: a rule leaves a well-formed document well-formed, for every supplied
\* value: here the SMBIOS rule's replaceStringValue('SystemSerialNumber', v).
C14_WellFormedKept ==
    (pc = "done" /\ WellFormed(template)) => WellFormed(content)

\* every string value of the key in the template is on one line
SingleLineTargets ==
    \A i \in DOMAIN params.entries :
       IsTarget(params.entries[i], params.key)
          => NoLineTerminator(params.entries[i].value, 1,
                              Len(params.entries[i].value))

\* C15: after replaceStringValue('SystemSerialNumber', v) with a supplied v,
\* the string value of every SystemSerialNumber entry (of a template whose
\* values are each on one line) is exactly v and the rest of the document is
\* as it was.
C15_SuppliedValueWritten ==
    (pc = "done" /\ SingleLineTargets) =>
        content = EntryDoc(Rewritten(params.entries, params.key, params.value))

(***************************************************************************)
(* The whole pipeline of both handlers on templates made of the entries    *)
(* whose values it forces                                                  *)
(***************************************************************************)

\* the entries of a template, by the rule that targets them
FieldEntries(family) ==
    IF family = "security"
    THEN { Entry("SystemProductName", "\n\t", "string", "MacBookPro16,1", "\n"),
           Entry("SystemProductName", "", "string", "Surface\nPro 7", ""),
           Entry("SecureBootModel", "\n\t", "string", "Default", "\n"),
           Entry("DmgLoading", " ", "string", "Signed", "\n"),
           Entry("ScanPolicy", "\n\t", "integer", "17760515", "\n") }
    ELSE IF family = "quirks"
    THEN { Entry("AppleXcpmCfgLock", "\n\t", "bool", "false", "\n"),
           Entry("AppleCpuPmCfgLock", "\n\t", "bool", "true", "\n"),
           Entry("DisableIoMapper", "", "bool", "false", ""),
           Entry("DevirtualiseMmio", " ", "bool", "false", "\n"),
           Entry("SetupVirtualMap", "\n\t", "bool", "false", "\n") }
    ELSE { Entry("HideAuxiliary", "\n\t", "bool", "true", "\n"),
           Entry("HideAuxiliary", "", "bool", "true", ""),
           Entry("HideAuxiliary", "\n\t", "bool", "false", "\n") }

\* what a caller passes to inject-config, for each handler
CallerParams ==
    { [handler |-> "part_002", smbios |-> NoSmbios, macosVersion |-> "",
       verbose |-> TRUE],
      [handler |-> "part_002", macosVersion |-> "Sonoma", verbose |-> FALSE,
       smbios |-> Smbios("C02ABC123XYZ", "C02000000000000AB", "")],
      [handler |-> "main.js", macosVersion |-> "sequoia", verbose |-> FALSE,
       smbios |-> Smbios("C02ABC123XYZ", "", "")] }

FieldsInit ==
    /\ pc = 0
    /\ \E family \in {"security", "quirks", "aux"}, p \in CallerParams :
       \E es \in EntrySeqs(FieldEntries(family), MaxEntries) :
          /\ params = [handler |-> p.handler, smbios |-> p.smbios,
                       macosVersion |-> p.macosVersion, verbose |-> p.verbose,
                       family |-> family, entries |-> es]
          /\ template = EntryDoc(es)
    /\ prev = template
    /\ content = template
    /\ destConfig = "" /\ console = <<>> /\ thrown = ""

SpecFields == FieldsInit /\ [][PipelineNext]_vars

\* the entries es with the value of every entry replaced by V(e)
WithValues(es, V(_)) == [i \in DOMAIN es |-> [es[i] EXCEPT !.value = V(es[i])]]

\* the value the model and security rules force on an entry
ForcedValue(e) ==
    IF e.tag = "string" /\ e.key = "SystemProductName" THEN "MacBookAir9,1"
    ELSE IF e.tag = "string" /\ e.key = "SecureBootModel" THEN "Disabled"
    ELSE IF e.tag = "string" /\ e.key = "DmgLoading" THEN "Any"
    ELSE IF e.tag = "integer" /\ e.key = "ScanPolicy" THEN "0"
    ELSE e.value

\* the same for an entry whose previous value is on one line; a value that
\* spans lines stays
ForcedValueOnOneLine(e) ==
    IF NoLineTerminator(e.value, 1, Len(e.value)) THEN ForcedValue(e) ELSE e.value

\* C16 as stated: after the pipeline every string SystemProductName is
\* MacBookAir9,1, every string SecureBootModel is Disabled, every string
\* DmgLoading is Any and every integer ScanPolicy is 0, whatever the template
\* held before.
C16_ForcedWhateverBefore ==
    (pc >= 1 /\ params.family = "security") =>
        content = EntryDoc(WithValues(params.entries, ForcedValue))

\* C16: after the pipeline of either handler, for every caller parameter,
\* every string SystemProductName, SecureBootModel and DmgLoading entry and
\* every integer ScanPolicy entry whose previous value is on one line holds
\* MacBookAir9,1, Disabled, Any and 0; an entry whose previous value spans
\* lines, and everything else in the document, is as it was.
C16_ForcedOnOneLine ==
    (pc >= 1 /\ params.family = "security") =>
        content = EntryDoc(WithValues(params.entries, ForcedValueOnOneLine))

C16_Witness ==
    /\ pc = 1
    /\ params.family = "security"
    /\ Len(params.entries) = 2
    /\ params.entries[1].value = "Surface\nPro 7"
    /\ params.entries[2].key = "ScanPolicy"
    /\ Includes(content, "<string>Surface\nPro 7</string>")
    /\ Includes(content, "<integer>0</integer>")
    /\ ~Includes(content, "17760515")

\* the value the quirk rule gives a boolean entry (written <true/> or
\* <false/>) of the five quirks both handlers enforce
QuirkValue(e) ==
    IF e.tag # "bool" THEN e.value
    ELSE IF e.key \in {"AppleXcpmCfgLock", "DisableIoMapper", "DevirtualiseMmio",
                       "SetupVirtualMap"} THEN "true"
    ELSE IF e.key = "AppleCpuPmCfgLock" THEN "false"
    ELSE e.value

AuxValue(e) ==
    IF e.tag = "bool" /\ e.key = "HideAuxiliary" THEN "false" ELSE e.value

\* C18: after the pipeline no <key>HideAuxiliary</key> is followed by
\* <true/>: every boolean HideAuxiliary entry of the template, not only the
\* first, is <false/> (and nothing else has changed).
C18_EveryHideAuxiliaryFalse ==
    (pc >= 1 /\ params.family = "aux") =>
        content = EntryDoc(WithValues(params.entries, AuxValue))

(***************************************************************************)
(* toggleKext on a Kernel -> Add array in which every record carries the   *)
(* same marker                                                             *)
(***************************************************************************)

SameMarkerInit ==
    /\ pc = "start"
    /\ \E name \in KextNames, v \in BOOLEAN :
       \E recs \in UNION {[1..n -> KextRecordSet] : n \in 2..MaxRecords} :
          /\ \A i \in DOMAIN recs : recs[i].name = name
          /\ params = [recs |-> recs, marked |-> 1,
                       kextName |-> name, shouldEnable |-> v]
          /\ template = KextDoc(recs)
    /\ prev = template
    /\ content = template
    /\ destConfig = "" /\ console = <<>> /\ thrown = ""

SpecSameMarker == SameMarkerInit /\ [][ToggleNext]_vars

\* C19: when every record lists the marker before its own Enabled boolean
\* and the marker occurs in more than one record, toggleKext(marker, v)
\* rewrites the Enabled boolean of the first record and leaves the Enabled
\* value of every later record as it was.
C19_OnlyFirstRecord ==
    (pc = "done" /\ \A i \in DOMAIN params.recs : params.recs[i].order = "path-first")
       => content = KextDoc(WithEnabled(params.recs, 1, params.shouldEnable))

(***************************************************************************)
(* toggleKext at the edge of its window: a record whose Enabled key begins *)
(* `gap` characters after the end of the marker                            *)
(***************************************************************************)

\* n characters of comment text
RECURSIVE Pad(_)
Pad(n) ==
    IF n <= 0 THEN ""
    ELSE IF n % 2 = 1 THEN "x" \o Pad(n - 1)
    ELSE Pad(n \div 2) \o Pad(n \div 2)

\* the text between the marker and the Enabled key: a Comment of the length
\* that makes it gap characters
Between(gap, open, shut) == open \o Pad(gap - Len(open) - Len(shut)) \o shut

WindowDoc(name, gap, ws, tag) ==
       PlistHead
    \o "\t<dict>\n\t\t<key>BundlePath</key>\n\t\t<string>" \o name \o "</string>"
    \o Between(gap, "\n\t\t<key>Comment</key>\n\t\t<string>", "</string>\n\t\t")
    \o "<key>Enabled</key>" \o ws \o tag \o "\n"
    \o "\t</dict>\n"
    \o PlistTail

\* what follows the Enabled key: a boolean, an empty string element, a string
EnabledValues == {"<true/>", "<false/>", "<string/>", "<string>yes</string>"}

WindowInit ==
    /\ pc = "start"
    /\ \E kextName \in {"Lilu.kext", "itlwm.kext"}, v \in BOOLEAN,
          gap \in {Window \div 2, Window, Window + 1},
          ws \in {"", "\n\t\t"}, tag \in EnabledValues :
          /\ params = [name |-> "Lilu.kext", kextName |-> kextName,
                       shouldEnable |-> v, gap |-> gap, ws |-> ws, tag |-> tag]
          /\ template = WindowDoc("Lilu.kext", gap, ws, tag)
    /\ prev = template
    /\ content = template
    /\ destConfig = "" /\ console = <<>> /\ thrown = ""

SpecWindow == WindowInit /\ [][ToggleNext]_vars

\* the marker is in the document and a tag that closes itself follows an
\* Enabled key that begins at most 500 characters after it
InWindow ==
    /\ params.kextName = params.name
    /\ params.gap <= Window
    /\ params.tag \in {"<true/>", "<false/>", "<string/>"}

CanonicalSpan ==
    SubSeq(driversBlock, IndexOf(driversBlock, "<key>Drivers</key>", 1),
           Len(driversBlock))

\* doc with the span from position i (its <key>Drivers</key>) to the end of
\* the first </array> after it replaced by the canonical span
WithCanonicalSpan(doc, i) ==
       SubSeq(doc, 1, i - 1)
    \o CanonicalSpan
    \o SubSeq(doc, IndexOf(doc, "</array>", i) + Len("</array>"), Len(doc))

\* C21: after the Drivers replacement alone, the span from <key>Drivers</key>
\* to its closing </array> is the canonical block and all text before
\* <key>Drivers</key> and after that </array> is byte-identical to the
\* template.
C21_OnlyDriversSpanReplaced ==
    pc.applied = {"drivers"} =>
        content = WithCanonicalSpan(template,
                                    IndexOf(template, "<key>Drivers</key>", 1))

\* how many of the tokens are t
Occurrences(tokens, t) == Cardinality({i \in DOMAIN tokens : tokens[i] = t})

\* C22: after the boot-args merge with verbose requested, -v is one of the
\* whitespace-delimited tokens of the patched value, exactly once, for every
\* initial value.
C22_VerboseTokenOnce ==
    (pc = "done" /\ params.verbose) =>
        Occurrences(Tokenize(BootArgsOf(content)), "-v") = 1

\* C23: the document an invocation writes is a function of the template text
\* and the parameters alone: whatever config.plist held before (another
\* installation's file, or the output of an earlier invocation with the same
\* template and parameters), a handler that returns has written the same
\* bytes.
C23_OutputFromInputsAlone ==
    pc = "returned" => destConfig = FullyPatched

C23_Witness ==
    /\ pc = "returned"
    /\ params.handler = "part_002"
    /\ params.extras
    /\ prev = FullyPatched
    /\ destConfig = prev
    /\ destConfig # template

(***************************************************************************)
(* WiFi kext selection: configureWifiKexts of configService.ts on the      *)
(* parsed Kernel -> Add array, and the two toggleKext calls of main.js on  *)
(* the text                                                                *)
(***************************************************************************)

\* a loop body that compares the whole BundlePath with AirportItlwm.kext
configureWifiKext_exactName(kext, macosVersion) ==
    IF kext.name = "AirportItlwm.kext"
    THEN [kext EXCEPT !.enabled = (macosVersion = "sonoma")]
    ELSE IF kext.name = "itlwm.kext"
    THEN [kext EXCEPT !.enabled = (macosVersion = "sequoia")]
    ELSE kext

\* the body of the loop over config.Kernel.Add
configureWifiKext(kext, macosVersion) ==
    IF Includes(kext.name, "AirportItlwm")
    THEN [kext EXCEPT !.enabled = (macosVersion = "sonoma")]
    ELSE IF kext.name = "itlwm.kext"
    THEN [kext EXCEPT !.enabled = (macosVersion = "sequoia")]
    ELSE kext

WifiNames == {"AirportItlwm.kext", "AirportItlwm-Sonoma.kext", "itlwm.kext",
              "Lilu.kext"}

\* a template without Kernel -> Add (recs = <<>>), or with 2..MaxRecords
\* records of different names that all use one key order
WifiInit ==
    /\ pc = "start"
    /\ \E impl \in {"configService", "main.js"}, v \in UiTags, order \in KeyOrders :
       \E recs \in {<<>>} \cup UNION {[1..n -> [name : WifiNames, enabled : BOOLEAN,
                                                order : {order}]] :
                                      n \in 2..MaxRecords} :
          /\ \A i, j \in DOMAIN recs : i # j => recs[i].name # recs[j].name
          /\ params = [impl |-> impl, macosVersion |-> v, order |-> order,
                       recs |-> recs]
          /\ template = IF recs = <<>> THEN PlistHead \o PlistTail ELSE KextDoc(recs)
    /\ prev = template
    /\ content = template
    /\ destConfig = "" /\ console = <<>> /\ thrown = ""

\* configureWifiKexts(configPath, macosVersion): readConfig, the loop,
\* writeConfig; nothing is written when there is no Kernel -> Add
ConfigureWifiKextsStep ==
    /\ pc = "start"
    /\ params.impl = "configService"
    /\ content' = IF params.recs = <<>> THEN content
                  ELSE KextDoc([i \in DOMAIN params.recs |->
                                  configureWifiKext(params.recs[i],
                                                    params.macosVersion)])
    /\ prev' = content
    /\ pc' = "done"
    /\ UNCHANGED <<template, params, io>>

\* main.js Step 4: toggleKext('AirportItlwm.kext', ...), toggleKext('itlwm.kext', ...)
MainJsKextsStep ==
    /\ pc = "start"
    /\ params.impl = "main.js"
    /\ content' = MainJsKexts(content, params.macosVersion)
    /\ prev' = content
    /\ pc' = "done"
    /\ UNCHANGED <<template, params, io>>

WifiNext == ConfigureWifiKextsStep \/ MainJsKextsStep

SpecWifi == WifiInit /\ [][WifiNext]_vars

\* the records with every AirportItlwm entry enabled exactly for sonoma,
\* itlwm.kext exactly for sequoia, and every other record as it was
WifiSelected(recs, macosVersion, airport) ==
    [i \in DOMAIN recs |->
        IF recs[i].name \in airport
        THEN [recs[i] EXCEPT !.enabled = (macosVersion = "sonoma")]
        ELSE IF recs[i].name = "itlwm.kext"
        THEN [recs[i] EXCEPT !.enabled = (macosVersion = "sequoia")]
        ELSE recs[i]]

\* C24 as stated: after configureWifiKexts, and after the toggles of
\* inject-config, every AirportItlwm entry is enabled exactly for sonoma and
\* itlwm.kext exactly for sequoia, and every other entry keeps its value.
C24_ExclusiveEverywhere ==
    (pc = "done" /\ params.recs # <<>>) =>
        content = KextDoc(WifiSelected(params.recs, params.macosVersion,
                             {"AirportItlwm.kext", "AirportItlwm-Sonoma.kext"}))

\* C24: configureWifiKexts enables every entry whose BundlePath contains
\* AirportItlwm exactly for sonoma and itlwm.kext exactly for sequoia and
\* keeps every other entry; the toggles of inject-config do so for the entry
\* whose BundlePath is AirportItlwm.kext and for itlwm.kext, when every
\* record lists its BundlePath before its Enabled key.  In neither result
\* are AirportItlwm.kext and itlwm.kext both enabled.
C24_ExclusivePerImplementation ==
    (pc = "done" /\ params.recs # <<>>) =>
        /\ params.impl = "configService" =>
              content = KextDoc(WifiSelected(params.recs, params.macosVersion,
                                   {"AirportItlwm.kext", "AirportItlwm-Sonoma.kext"}))
        /\ (params.impl = "main.js" /\ params.order = "path-first") =>
              /\ content = KextDoc(WifiSelected(params.recs, params.macosVersion,
                                      {"AirportItlwm.kext"}))
              /\ ~(KextEnabled(content, "AirportItlwm.kext")
                      /\ KextEnabled(content, "itlwm.kext"))

C24_Witness ==
    /\ pc = "done"
    /\ params.impl = "configService"
    /\ params.macosVersion = "sequoia"
    /\ Len(params.recs) = 2
    /\ params.recs[1] = PathFirst("AirportItlwm-Sonoma.kext", TRUE)
    /\ params.recs[2] = PathFirst("itlwm.kext", FALSE)
    /\ ~KextEnabled(content, "AirportItlwm-Sonoma.kext")
    /\ KextEnabled(content, "itlwm.kext")

\* C25: with verbose = false, on a template whose boot-args does not contain
\* -v, the patched boot-args does not contain -v.
C25_VerboseGovernsToken ==
    (pc = "done" /\ ~params.verbose /\ ~Includes(BootArgsOf(template), "-v"))
       => ~Includes(BootArgsOf(content), "-v")

(***************************************************************************)
(* DownloadService (downloadService.js, configService.ts).  The service    *)
(* keeps its state in the variables of the module: content holds the       *)
(* promises download() has returned, destConfig the keys of the Map        *)
(* activeDownloads, prev the downloads that were in flight when cancel     *)
(* returned true for their id, pc the last call and what it returned.      *)
(***************************************************************************)

\* the download() calls the model follows, redirects included
MaxCalls == 2

\* the chunks a response delivers at most
MaxChunks == 1

DownloadIds == {"opencore", "recovery"}

calls == content

activeDownloads == destConfig

cancelled == prev

\* the promise a call of download() returns: parent is the call whose
\* response redirected to it (0: called from outside), written the chunks
\* piped into destPath
NewCall(id, parent) ==
    [id |-> id, parent |-> parent, state |-> "pending", written |-> 0]

Settled(call) == call.state \in {"resolved", "rejected"}

\* the ids of the downloads that are in flight
InFlight(cs) == {cs[c].id : c \in {d \in DOMAIN cs : ~Settled(cs[d])}}

\* resolve / reject of call c, which .then(resolve).catch(reject) passes on
\* to the call that was redirected to it; a settled promise stays as it is
RECURSIVE Settle(_, _, _)
Settle(cs, c, outcome) ==
    IF c = 0 \/ Settled(cs[c]) THEN cs
    ELSE Settle([cs EXCEPT ![c].state = outcome], cs[c].parent, outcome)

\* this.activeDownloads.delete(id)
Unregister(reg, id) == reg \ {id}

\* this.activeDownloads.set(id, controller), in downloadService.js only where
\* global.AbortController exists
Register(reg, id) == IF params.AbortController THEN reg \cup {id} ELSE reg

DownloadInit ==
    /\ pc = <<"new">>
    /\ params \in { [impl |-> "downloadService.js", AbortController |-> b] : b \in BOOLEAN }
                  \cup { [impl |-> "configService.ts", AbortController |-> TRUE] }
    /\ content = <<>>
    /\ destConfig = {}
    /\ prev = {}
    /\ template = ""
    /\ console = <<>>
    /\ thrown = ""

\* download({id, url, destPath}) called from outside
Download(id) ==
    /\ Len(calls) < MaxCalls
    /\ calls' = Append(calls, NewCall(id, 0))
    /\ activeDownloads' = Register(activeDownloads, id)
    /\ pc' = <<"download">>
    /\ UNCHANGED <<template, params, prev, console, thrown>>

\* a 301 / 302 response with a location header: download() is called again
\* with the same id and destPath
Redirect(c) ==
    /\ calls[c].state = "pending"
    /\ Len(calls) < MaxCalls
    /\ calls' = Append([calls EXCEPT ![c].state = "redirected"],
                       NewCall(calls[c].id, c))
    /\ activeDownloads' = Register(activeDownloads, calls[c].id)
    /\ pc' = <<"redirect">>
    /\ UNCHANGED <<template, params, prev, console, thrown>>

\* any other status than 200 (a redirect without location included), or the
\* 'error' event of the request
RejectRequest(c) ==
    /\ calls[c].state = "pending"
    /\ calls' = Settle(calls, c, "rejected")
    /\ pc' = <<"reject">>
    /\ UNCHANGED <<template, params, prev, destConfig, console, thrown>>

\* status 200: the file stream is created and the response piped into it
OpenStream(c) ==
    /\ calls[c].state = "pending"
    /\ calls' = [calls EXCEPT ![c].state = "streaming"]
    /\ pc' = <<"response">>
    /\ UNCHANGED <<template, params, prev, destConfig, console, thrown>>

\* a chunk of the response is written to destPath
Data(c) ==
    /\ calls[c].state = "streaming"
    /\ calls[c].written < MaxChunks
    /\ calls' = [calls EXCEPT ![c].written = @ + 1]
    /\ pc' = <<"data">>
    /\ UNCHANGED <<template, params, prev, destConfig, console, thrown>>

\* the 'finish' event of the file stream
Finish(c) ==
    /\ calls[c].state = "streaming"
    /\ activeDownloads' = Unregister(activeDownloads, calls[c].id)
    /\ calls' = Settle(calls, c, "resolved")
    /\ pc' = <<"finish">>
    /\ UNCHANGED <<template, params, prev, console, thrown>>

\* the 'error' event of the file stream
StreamError(c) ==
    /\ calls[c].state = "streaming"
    /\ calls' = Settle(calls, c, "rejected")
    /\ pc' = <<"error">>
    /\ UNCHANGED <<template, params, prev, destConfig, console, thrown>>

\* cancel(id): the controller it aborts was given to no request
Cancel(id) ==
    /\ IF id \in activeDownloads
       THEN /\ activeDownloads' = Unregister(activeDownloads, id)
            /\ cancelled' = cancelled \cup
                   {c \in DOMAIN calls : calls[c].id = id /\ ~Settled(calls[c])}
            /\ pc' = <<"cancel", TRUE>>
       ELSE /\ pc' = <<"cancel", FALSE>>
            /\ UNCHANGED <<destConfig, prev>>
    /\ UNCHANGED <<template, params, content, console, thrown>>

DownloadNext ==
    \/ \E id \in DownloadIds : Download(id) \/ Cancel(id)
    \/ \E c \in DOMAIN calls :
          \/ Redirect(c)
          \/ RejectRequest(c)
          \/ OpenStream(c)
          \/ Data(c)
          \/ Finish(c)
          \/ StreamError(c)

SpecDownload == DownloadInit /\ [][DownloadNext]_vars

\* C26: once cancel(id) has returned true for a download in flight, that
\* download writes no further chunk and its promise does not resolve.
C26_CancelStopsDownload ==
    [][\A c \in cancelled :
          /\ calls'[c].written = calls[c].written
          /\ calls'[c].state # "resolved"]_vars

\* C27: when every promise download(id, ...) has returned is settled, id is
\* not a key of activeDownloads.
C27_SettledNotRegistered ==
    \A id \in DownloadIds : id \in activeDownloads => id \in InFlight(calls)

(***************************************************************************)
(* fetchRecoveryUrlWithCookie (part_002, main.js): the retry loop around   *)
(* the two requests of the recovery handshake.  prev holds the loop index  *)
(* i, destConfig lastError, content the value the function returned,       *)
(* thrown the value it threw, console the warnings of the failed attempts  *)
(* and template the outcome of every performRequest() call so far.         *)
(***************************************************************************)

\* the largest retries argument the model follows (the default is 3)
MaxRetries == 3

loopIndex == prev

lastError == destConfig

attempts == template

BoardIds == {"Mac-CFF7D910A743CAAF"}

\* the AU line of a details response ("": the response has none)
ImageUrls == {"", "http://oscdn.apple.com/BaseSystem.dmg"}

\* the status codes of a details response
DetailsStatus == {200, 403}

\* err.message of the 'error' event of a request
RequestErrors == {"ECONNRESET", "ETIMEDOUT"}

Pending == [ok |-> FALSE, value |-> "pending"]

\* the promise of the running performRequest() is settled
SettleAttempt(as, ok, value) ==
    [as EXCEPT ![Len(as)] = [ok |-> ok, value |-> value]]

\* i <= retries
LoopContinues_inclusive(i, retries) == i <= retries

\* i < retries
LoopContinues(i, retries) == i < retries

RetryInit ==
    /\ pc = "loop"
    /\ params \in { [boardId |-> b, retries |-> n] : b \in BoardIds, n \in 0..MaxRetries }
    /\ prev = 0
    /\ destConfig = "undefined"
    /\ template = <<>>
    /\ content = "undefined"
    /\ console = <<>>
    /\ thrown = ""

\* for (...; i < retries; ...) { return await performRequest() } throw lastError
LoopTest ==
    /\ pc = "loop"
    /\ IF LoopContinues(loopIndex, params.retries)
       THEN /\ pc' = "session"
            /\ attempts' = Append(attempts, Pending)
            /\ UNCHANGED thrown
       ELSE /\ pc' = "threw"
            /\ thrown' = lastError
            /\ UNCHANGED template
    /\ UNCHANGED <<params, prev, content, destConfig, console>>

\* reject(err) of performRequest, caught by the loop
Rejected(message) ==
    /\ pc' = "sleep"
    /\ lastError' = message
    /\ attempts' = SettleAttempt(attempts, FALSE, message)
    /\ console' = Append(console, message)
    /\ UNCHANGED <<params, prev, content, thrown>>

\* the response of the session request
SessionResponse(cookie) ==
    /\ pc = "session"
    /\ IF cookie
       THEN /\ pc' = "details"
            /\ UNCHANGED <<template, params, prev, content, destConfig, console, thrown>>
       ELSE Rejected("No session cookie received from Apple Recovery Server")

\* the 'error' event of the session request
SessionError(message) ==
    /\ pc = "session"
    /\ Rejected(message)

\* the 'end' event of the details response
DetailsResponse(status, url) ==
    /\ pc = "details"
    /\ IF status # 200
       THEN Rejected("Recovery Details HTTP")
       ELSE IF url = ""
            THEN Rejected("No Image URL (AU) in recovery response")
            ELSE /\ pc' = "returned"
                 /\ content' = url
                 /\ attempts' = SettleAttempt(attempts, TRUE, url)
                 /\ UNCHANGED <<params, prev, destConfig, console, thrown>>

\* the 'error' event of the details request
DetailsError(message) ==
    /\ pc = "details"
    /\ Rejected(message)

\* await new Promise(r => setTimeout(r, 1000)); i++
Timer ==
    /\ pc = "sleep"
    /\ pc' = "loop"
    /\ loopIndex' = loopIndex + 1
    /\ UNCHANGED <<template, params, content, destConfig, console, thrown>>

RetryNext ==
    \/ LoopTest
    \/ \E cookie \in BOOLEAN : SessionResponse(cookie)
    \/ \E message \in RequestErrors : SessionError(message)
    \/ \E status \in DetailsStatus, url \in ImageUrls : DetailsResponse(status, url)
    \/ \E message \in RequestErrors : DetailsError(message)
    \/ Timer

\* every request is answered or fails, and the timer fires
SpecRetry == RetryInit /\ [][RetryNext]_vars /\ WF_vars(RetryNext)

\* no attempt follows a successful one, and there are at most retries
RetryBounded ==
    /\ Len(attempts) <= params.retries
    /\ \A k \in 1..(Len(attempts) - 1) : ~attempts[k].ok /\ attempts[k] # Pending

\* what the function returned or threw
RetryOutcome ==
    /\ pc = "returned" =>
          /\ attempts[Len(attempts)].ok
          /\ content = attempts[Len(attempts)].value
    /\ pc = "threw" =>
          /\ Len(attempts) = params.retries
          /\ \A k \in 1..Len(attempts) : ~attempts[k].ok
          /\ params.retries >= 1 => thrown = attempts[Len(attempts)].value

\* C28: at most retries attempts are made, the first successful one ends
\* the loop and its result is returned, and when all of them fail the
\* function ends by throwing the error of the last one.
C28_RetryHandshake ==
    /\ [](RetryBounded /\ RetryOutcome)
    /\ <>(pc \in {"returned", "threw"})

C28_Witness ==
    /\ pc = "threw"
    /\ params.retries = MaxRetries
    /\ Len(attempts) = MaxRetries
    /\ attempts[1].value = "ECONNRESET"
    /\ thrown = "No Image URL (AU) in recovery response"

(***************************************************************************)
(* The wizard of App.tsx.  content holds currentStep, destConfig           *)
(* completedSteps, pc the last call with its argument, template the two    *)
(* state values before that call and console the steps nextStep was        *)
(* called from.                                                            *)
(***************************************************************************)

\* how far outside 1..STEPS.length the arguments of goToStep reach
MaxOvershoot == 1

STEPS == << "Welcome", "USB Preparation", "SMBIOS", "Configuration",
            "BIOS Guide", "Installation", "Post-Install" >>

currentStep == content

completedSteps == destConfig

StepArguments == (0 - MaxOvershoot)..(Len(STEPS) + 1 + MaxOvershoot)

\* x occurs in the array
ArrayIncludes(xs, x) == \E k \in DOMAIN xs : xs[k] = x

\* [...completedSteps, currentStep] whether or not the step is in it
Completed_again(done, step) == Append(done, step)

\* if (!completedSteps.includes(currentStep)) [...completedSteps, currentStep]
Completed(done, step) ==
    IF ArrayIncludes(done, step) THEN done ELSE Append(done, step)

WizardInit ==
    /\ pc = <<"render">>
    /\ content = 1
    /\ destConfig = <<>>
    /\ template = [currentStep |-> 1, completedSteps |-> <<>>]
    /\ console = {}
    /\ params = "App"
    /\ prev = ""
    /\ thrown = ""

Called(call) ==
    /\ pc' = call
    /\ template' = [currentStep |-> currentStep, completedSteps |-> completedSteps]
    /\ UNCHANGED <<params, prev, thrown>>

goToStep(step) ==
    /\ Called(<<"goToStep", step>>)
    /\ IF step >= 1 /\ step <= Len(STEPS)
       THEN currentStep' = step
       ELSE UNCHANGED content
    /\ UNCHANGED <<destConfig, console>>

nextStep ==
    /\ Called(<<"nextStep">>)
    /\ console' = console \cup {currentStep}
    /\ IF currentStep < Len(STEPS)
       THEN /\ completedSteps' = Completed(completedSteps, currentStep)
            /\ currentStep' = currentStep + 1
       ELSE UNCHANGED <<content, destConfig>>

prevStep ==
    /\ Called(<<"prevStep">>)
    /\ IF currentStep > 1
       THEN currentStep' = currentStep - 1
       ELSE UNCHANGED content
    /\ UNCHANGED <<destConfig, console>>

WizardNext ==
    \/ \E step \in StepArguments : goToStep(step)
    \/ nextStep
    \/ prevStep

SpecWizard == WizardInit /\ [][WizardNext]_vars

\* the last call left currentStep and completedSteps as they were
WizardUnchanged ==
    /\ currentStep = template.currentStep
    /\ completedSteps = template.completedSteps

\* C29: currentStep stays within 1..7; nextStep at step 7, prevStep at step 1
\* and goToStep outside 1..7 change nothing; completedSteps has no duplicate
\* and holds only steps nextStep was called from.
C29_WizardStepInvariant ==
    /\ currentStep \in 1..7
    /\ (pc = <<"nextStep">> /\ template.currentStep = 7) => WizardUnchanged
    /\ (pc = <<"prevStep">> /\ template.currentStep = 1) => WizardUnchanged
    /\ (pc[1] = "goToStep" /\ pc[2] \notin 1..7) => WizardUnchanged
    /\ \A j, k \in DOMAIN completedSteps :
          completedSteps[j] = completedSteps[k] => j = k
    /\ \A k \in DOMAIN completedSteps : completedSteps[k] \in console

C29_Witness ==
    /\ pc = <<"nextStep">>
    /\ template = [currentStep |-> 7, completedSteps |-> <<2, 6, 1>>]
    /\ currentStep = 7
    /\ completedSteps = <<2, 6, 1>>

(***************************************************************************)
(* The SMBIOS generator (part_003).  params holds the model and the        *)
(* values Math.random() yields, content what the call returned or threw.   *)
(***************************************************************************)

\* the largest step between two successive values of Math.random()
MaxStride == 1

BASE34_CHARS == "ABCDEFGHJKLMNPQRSTUVWXYZ0123456789"

LOCATION_CODES ==
    << "C02", "C07", "C17", "C1M", "C2V", "CK2", "D25", "DQG", "DYJ",
       "F5K", "F5V", "F17", "FC2", "FVF", "G8W", "GQ6", "H2W", "J9G" >>

MODEL_CODES ==
    ("MacBookAir9,1" :> "GQ6Y") @@ ("MacBookPro16,2" :> "JWQ6") @@
    ("MacBookPro16,1" :> "HDWP") @@ ("iMac20,1" :> "PN5Y") @@
    ("iMac20,2" :> "PN5Y")

\* model names MODEL_CODES does not have
UnknownModels == {"", "MacPro7,1", "MacBookAir8,1"}

\* Math.floor(Math.random() * size) at the n-th call of Math.random()
RandomIndex(rnd, n, size) == (rnd.start + n * rnd.stride) % size

\* the series of values Math.random() yields
RandomSeries ==
    { [start |-> s, stride |-> d] : s \in 0..(Len(BASE34_CHARS) - 1), d \in 0..MaxStride }

randomBase34(rnd, n) ==
    CharAt(BASE34_CHARS, RandomIndex(rnd, n, Len(BASE34_CHARS)) + 1)

RECURSIVE randomAlphanumeric(_, _, _)
randomAlphanumeric(rnd, n, length) ==
    IF length = 0 THEN ""
    ELSE randomBase34(rnd, n) \o randomAlphanumeric(rnd, n + 1, length - 1)

randomLocation(rnd, n) ==
    LOCATION_CODES[RandomIndex(rnd, n, Len(LOCATION_CODES)) + 1]

\* MODEL_CODES[model], "" for undefined
ModelCode(model) ==
    IF model \in DOMAIN MODEL_CODES THEN MODEL_CODES[model] ELSE ""

Returned(value) == [threw |-> FALSE, value |-> value]

Threw(message) == [threw |-> TRUE, value |-> message]

generateSerial(model, rnd) ==
    IF ModelCode(model) = "" THEN Threw("Unknown model: " \o model)
    ELSE Returned(randomLocation(rnd, 0) \o randomBase34(rnd, 1)
                    \o randomBase34(rnd, 2) \o randomAlphanumeric(rnd, 3, 3)
                    \o ModelCode(model))

\* the same without the trailing checksum character
generateMLB_noChecksum(model, rnd) ==
    IF ModelCode(model) = "" THEN Threw("Unknown model: " \o model)
    ELSE Returned(randomLocation(rnd, 0) \o randomAlphanumeric(rnd, 1, 4)
                    \o randomAlphanumeric(rnd, 5, 5) \o ModelCode(model))

generateMLB(model, rnd) ==
    IF ModelCode(model) = "" THEN Threw("Unknown model: " \o model)
    ELSE Returned(randomLocation(rnd, 0) \o randomAlphanumeric(rnd, 1, 4)
                    \o randomAlphanumeric(rnd, 5, 5) \o ModelCode(model)
                    \o randomBase34(rnd, 10))

\* for (const char of s) if (!BASE34_CHARS.includes(char)) return false
OnlyBase34(s) == \A k \in 1..Len(s) : Includes(BASE34_CHARS, CharAt(s, k))

validateSerial(serial) == Len(serial) = 12 /\ OnlyBase34(serial)

validateMLB(mlb) == Len(mlb) = 17 /\ OnlyBase34(mlb)

SmbiosInit ==
    /\ pc = "call"
    /\ params \in { [model |-> m, rnd |-> r] :
                      m \in DOMAIN MODEL_CODES \cup UnknownModels, r \in RandomSeries }
    /\ content = Returned("")
    /\ template = ""
    /\ prev = ""
    /\ destConfig = ""
    /\ console = <<>>
    /\ thrown = ""

GenerateSerial ==
    /\ pc = "call"
    /\ pc' = "generateSerial"
    /\ content' = generateSerial(params.model, params.rnd)
    /\ UNCHANGED <<template, params, prev, destConfig, console, thrown>>

GenerateMLB ==
    /\ pc = "call"
    /\ pc' = "generateMLB"
    /\ content' = generateMLB(params.model, params.rnd)
    /\ UNCHANGED <<template, params, prev, destConfig, console, thrown>>

SmbiosNext == GenerateSerial \/ GenerateMLB

SpecSmbios == SmbiosInit /\ [][SmbiosNext]_vars

====
